---- MODULE Spec2Model ----
(***************************************************************************)
(* Masternode payment voting (src/src/masternode-payments.{h,cpp}): the    *)
(* vote ledger CMasternodePayments, the per-height tally                   *)
(* CMasternodeBlockPayees, the "mnw" announcement handler, local vote      *)
(* production (ProcessBlock), cleanup and payment validation.              *)
(*                                                                         *)
(* Spec      : the ledger under the "mnw" handler (one step per locked     *)
(*             section), ProcessBlock, CleanPaymentList and chain growth.  *)
(* SpecChurn : the "mnw" handler while a masternode leaves and rejoins.    *)
(* SpecTally : one ledger fed by accepted votes (AddPayee) and queried by  *)
(*             IsTransactionValid.                                         *)
(* SpecGuard : two callers of CanVote, one step per statement, with the    *)
(*             critical section cs_mapMasternodePayeeVotes explicit.       *)
(* SpecPeer  : the "mnw" handler before and after the node has synced,     *)
(*             with what it reports about the sending peer.                *)
(* SpecClean : CleanPaymentList at tip 2000 for rosters of 100 and 803     *)
(*             masternodes.                                                *)
(* SpecLocks : the operations on the two maps as threads, with both        *)
(*             critical sections explicit.                                 *)
(* SpecSnapshot : CMasternodePaymentDB::Write and Read of mnpayments.dat   *)
(*             while the ledger changes and the file gets damaged.         *)
(* SpecSync  : the "mnget" request of a peer and CMasternodePayments::Sync *)
(*             on the main and on a test network.                          *)
(* SpecFill  : FillBlockPayee on the tally of the next block.              *)
(* SpecQuorum : the "mnw" handler as one step, fed the votes of seven      *)
(*             voters for one height.                                      *)
(* SpecRestart : the "mnw" handler, Write, Read and a restart of the       *)
(*             process.                                                    *)
(* SpecDump  : DumpMasternodePayments while the node votes and the file    *)
(*             gets damaged.                                               *)
(* SpecLocal : ProcessBlock with its return value, for heights in any      *)
(*             order, budget heights included.                             *)
(* SpecPayee : IsBlockPayeeValid on the tally of a height.                 *)
(***************************************************************************)
EXTENDS Integers, Sequences, FiniteSets, TLC

VARIABLES
    mapMasternodePayeeVotes, \* GetHash(winner) -> CMasternodePaymentWinner
    mapMasternodeBlocks,     \* height -> CMasternodeBlockPayees
    mapMasternodesLastVote,  \* guard key -> last height voted
    nLastBlockHeight,        \* last height ProcessBlock voted for
    chainTip,                \* chainActive.Tip()->nHeight
    mnodeman,                \* masternodes the roster currently knows
    pc,                      \* position of the "mnw" handler
    winner,                  \* the announcement the handler is working on
    outcome,                 \* the return statement the handler last took
    relayed,                 \* hashes the last step passed to Relay()
    erasedSeen,              \* hashes the last step erased from mapSeenSyncMNW
    fSynced,                 \* masternodeSync.IsSynced()
    misbehaving,             \* score the handler's last run gave to Misbehaving()
    askedMN,                 \* masternode the handler's last run passed to AskForMN()
    addedSeen,               \* hashes the handler's last run passed to AddedMasternodeWinner()
    txNew,                   \* last transaction given to IsTransactionValid
    txHeight,                \* its block height
    txValid,                 \* the answer
    winningNode,             \* what the roster offered the last FillBlockPayee for each tier
    ret,                     \* the last call of IsBlockPayeeValid or ProcessBlock and what it returned
    cs,                      \* holder of cs_mapMasternodePayeeVotes
    cvPc,                    \* SpecGuard: position of each CanVote caller
    cvArg,                   \* SpecGuard: each caller's winner
    cvRet,                   \* SpecGuard: each caller's return value
    csBlocks,                \* SpecLocks: holder of cs_mapMasternodeBlocks
    opPc,                    \* SpecLocks: position of each thread in its operation
    touched,                 \* SpecLocks: the maps each thread's last step read or wrote
    syncReq,                 \* the last "mnget" request: the peer and the count it asked for
    syncOut,                 \* messages the last "mnget" request made the node send, in order
    fulfilled,               \* peers with a fulfilled "mnget" request
    network,                 \* Params().NetworkID()
    file,                    \* contents of mnpayments.dat
    ssObj,                   \* the stream CMasternodePaymentDB::Write is filling
    wrPc,                    \* position of the thread inside Write
    readResult               \* what the last CMasternodePaymentDB::Read returned

vars == <<mapMasternodePayeeVotes, mapMasternodeBlocks, mapMasternodesLastVote,
          nLastBlockHeight, chainTip, mnodeman, pc, winner, outcome, relayed, erasedSeen,
          fSynced, misbehaving, askedMN, addedSeen,
          txNew, txHeight, txValid, winningNode, ret, cs, cvPc, cvArg, cvRet, csBlocks, opPc, touched,
          syncReq, syncOut, fulfilled, network, file, ssObj, wrPc, readResult>>

ledgerVars == <<mapMasternodePayeeVotes, mapMasternodeBlocks, mapMasternodesLastVote,
                nLastBlockHeight, chainTip, mnodeman, pc, winner, outcome, relayed, erasedSeen,
                fSynced, misbehaving, askedMN, addedSeen>>
peerVars == <<fSynced, misbehaving, askedMN, addedSeen>>
txVars == <<txNew, txHeight, txValid, winningNode, ret>>
guardVars == <<cs, cvPc, cvArg, cvRet>>
lockVars == <<csBlocks, opPc, touched>>
ioVars == <<syncReq, syncOut, fulfilled, network, file, ssObj, wrPc, readResult>>

(***************************************************************************)
(* Program constants                                                       *)
(***************************************************************************)
MNPAYMENTS_SIGNATURES_REQUIRED == 6
MNPAYMENTS_SIGNATURES_TOTAL == 10
\* nHeight + 20, the forward tolerance of the acceptance window
WindowAhead == 20
\* std::max(int(mnodeman.size() * 1.25), 1000)
MinRetention == 1000
\* GetBlockHash(blockHash, winnerIn.nBlockHeight - 100)
HashLookBack == 100
\* Misbehaving(pfrom->GetId(), 20)
MisbehavingScore == 20

\* a report that does not look at the sync state
PenaltyAlways(synced) == MisbehavingScore

\* if (masternodeSync.IsSynced()) Misbehaving(pfrom->GetId(), 20): the score given
SyncedPenalty(synced) == IF synced THEN MisbehavingScore ELSE 0

(***************************************************************************)
(* The roster collaborator (masternodeman, not part of the sources): three *)
(* masternodes.  mn1 is the local node; mn2 may leave and rejoin.          *)
(***************************************************************************)
Masternodes == {"mn1", "mn2", "mn3"}
ChurnNodes == {"mn2"}
activeMasternode == "mn1"

\* the collateral outpoint (prevout.hash, prevout.n) of a masternode
Outpoint(mn) ==
    CASE mn = "mn1" -> [hash |-> 1, n |-> 0]
      [] mn = "mn2" -> [hash |-> 1, n |-> 1]
      [] mn = "q1"  -> [hash |-> 4, n |-> 1]
      [] mn = "q2"  -> [hash |-> 6, n |-> 0]
      [] mn = "q3"  -> [hash |-> 7, n |-> 0]
      [] mn = "q4"  -> [hash |-> 8, n |-> 0]
      [] mn = "q5"  -> [hash |-> 9, n |-> 0]
      [] mn = "q6"  -> [hash |-> 10, n |-> 0]
      [] mn = "q7"  -> [hash |-> 5, n |-> 0]
      [] OTHER      -> [hash |-> 3, n |-> 0]

\* CMasternode::GetPhase(nBlockHeight): the level of a masternode
Level(mn) == IF mn = "mn3" THEN 2 ELSE 1

\* mnodeman.GetMasternodeRank(vin, nBlockHeight - 100, ActiveProtocol())
Rank(mn) == IF mn = "mn2" THEN 11 ELSE 1

\* Params().getMasternodePhaseCount(nBlockHeight)
PhaseCount == 2

\* mnodeman.Find(vin)
Find(mn) == mn \in mnodeman

\* mnodeman.CountEnabledOnLevel(level)
CountEnabledOnLevel(level) == Cardinality({m \in mnodeman : Level(m) = level})

\* GetScriptForDestination(pmn->pubKeyCollateralAddress.GetID())
Script(mn) == <<"script", mn>>
EmptyScript == <<"script", "none">>

\* GetBlockHash(hash, h): the chain holds blocks 0 .. tip
GetBlockHash(h) == h >= 0 /\ h <= chainTip


\* GetTransaction(vinPayee.prevout.hash, ...): the collateral is on the chain
GetTransaction(mn) == mn \in Masternodes

(***************************************************************************)
(* CMasternodePaymentWinner                                                *)
(***************************************************************************)
NoWinner == [vinMasternode |-> "none", nBlockHeight |-> 0, vinPayee |-> "none",
             vchSig |-> <<>>]

\* CMasternodePaymentWinner::GetHash over (vinPayee, nBlockHeight, prevout)
GetHash(w) == <<w.vinPayee, w.nBlockHeight, w.vinMasternode>>

\* CMasternodePaymentWinner::GetPhase
GetPhase(w) == IF Find(w.vinMasternode) THEN Level(w.vinMasternode) ELSE 0

\* CMasternodePaymentWinner::GetPayeePhase
GetPayeePhase(w) == IF Find(w.vinPayee) THEN Level(w.vinPayee) ELSE 0

\* CMasternodePaymentWinner::GetPayeeScript
GetPayeeScript(w) ==
    IF Find(w.vinPayee) THEN Script(w.vinPayee)
    ELSE IF GetTransaction(w.vinPayee) THEN Script(w.vinPayee)
    ELSE EmptyScript

\* strMessage = prevout.ToStringShort() + to_string(nBlockHeight) + payee script
StrMessage(w) == <<Outpoint(w.vinMasternode), w.nBlockHeight, GetPayeeScript(w)>>

\* obfuScationSigner.SignMessage with the key of masternode mn
SignMessage(mn, msg) == <<"sig", mn, msg>>
BadSig == <<"sig", "forged">>

\* obfuScationSigner.VerifyMessage(pmn->pubKeyMasternode, vchSig, strMessage)
VerifyMessage(mn, sig, msg) == sig = SignMessage(mn, msg)

\* CMasternodePaymentWinner::SignatureValid
SignatureValid(w) ==
    IF Find(w.vinMasternode)
    THEN VerifyMessage(w.vinMasternode, w.vchSig, StrMessage(w))
    ELSE FALSE

\* CMasternodePaymentWinner::IsValid: known voter within the top 10
IsValid(w) ==
    IF ~Find(w.vinMasternode) THEN FALSE
    ELSE IF Rank(w.vinMasternode) > MNPAYMENTS_SIGNATURES_TOTAL THEN FALSE
    ELSE TRUE

\* the count times 1.25 rounded up instead of truncated
WindowBackCeil(payeePhase) == ((CountEnabledOnLevel(payeePhase) * 5) + 3) \div 4

\* int(mnodeman.CountEnabledOnLevel(payeePhase) * 1.25)
WindowBack(payeePhase) == (CountEnabledOnLevel(payeePhase) * 5) \div 4

\* nFirstBlock = nHeight - int(CountEnabledOnLevel(payeePhase) * 1.25)
FirstBlock(nHeight, payeePhase) == nHeight - WindowBack(payeePhase)

\* winner.nBlockHeight < nFirstBlock || winner.nBlockHeight > nHeight + 20
OutOfRange(w, nHeight) ==
    \/ w.nBlockHeight < FirstBlock(nHeight, GetPayeePhase(w))
    \/ w.nBlockHeight > nHeight + WindowAhead

(***************************************************************************)
(* CMasternodeBlockPayees                                                  *)
(***************************************************************************)
\* CMasternodeBlockPayees(int nBlockHeightIn)
BlockPayees(h) == [nBlockHeight |-> h, vecPayments |-> <<>>]

\* the index of the first entry AddPayee matches, 0 when there is none
PayeeIndex(vec, payeeIn, level) ==
    LET hits == {i \in 1..Len(vec) : vec[i].scriptPubKey = payeeIn
                                      /\ vec[i].masternodeLevel = level}
    IN IF hits = {} THEN 0 ELSE CHOOSE i \in hits : \A j \in hits : i <= j

\* AddPayee storing the increment instead of adding it
AddPayeeOverwrite(vec, payeeIn, level, nIncrement) ==
    LET i == PayeeIndex(vec, payeeIn, level)
    IN IF i > 0
       THEN [vec EXCEPT ![i].nVotes = nIncrement]
       ELSE Append(vec, [scriptPubKey |-> payeeIn, masternodeLevel |-> level,
                         nVotes |-> nIncrement])

\* CMasternodeBlockPayees::AddPayee(payeeIn, masternodeLevel, nIncrement)
AddPayee(vec, payeeIn, level, nIncrement) ==
    LET i == PayeeIndex(vec, payeeIn, level)
    IN IF i > 0
       THEN [vec EXCEPT ![i].nVotes = @ + nIncrement]
       ELSE Append(vec, [scriptPubKey |-> payeeIn, masternodeLevel |-> level,
                         nVotes |-> nIncrement])

\* CMasternodeBlockPayees::GetPayee(payee, masternodeLevel): scan with p.nVotes >
\* nVotes from -1; the index of the entry returned, 0 for false
RECURSIVE GetPayeeScan(_, _, _, _, _)
GetPayeeScan(vec, level, i, best, nVotes) ==
    IF i > Len(vec) THEN best
    ELSE IF vec[i].masternodeLevel = level /\ vec[i].nVotes > nVotes
         THEN GetPayeeScan(vec, level, i + 1, i, vec[i].nVotes)
         ELSE GetPayeeScan(vec, level, i + 1, best, nVotes)

\* a scan that lets a later entry with the same count win
RECURSIVE GetPayeeScanLast(_, _, _, _, _)
GetPayeeScanLast(vec, level, i, best, nVotes) ==
    IF i > Len(vec) THEN best
    ELSE IF vec[i].masternodeLevel = level /\ vec[i].nVotes >= nVotes
         THEN GetPayeeScanLast(vec, level, i + 1, i, vec[i].nVotes)
         ELSE GetPayeeScanLast(vec, level, i + 1, best, nVotes)

GetPayeeLast(vec, level) == GetPayeeScanLast(vec, level, 1, 0, -1)

GetPayee(vec, level) == GetPayeeScan(vec, level, 1, 0, -1)

(***************************************************************************)
(* CMasternodePayments                                                     *)
(***************************************************************************)
\* key = ((outMasternode.hash + outMasternode.n) << 4) + voteForPhase
CanVoteKey(w, voteForPhase) ==
    ((Outpoint(w.vinMasternode).hash + Outpoint(w.vinMasternode).n) * 16) + voteForPhase

\* CMasternodePayments::CanVote(winner): the return value
CanVote(lastVote, w, voteForPhase) ==
    LET key == CanVoteKey(w, voteForPhase)
    IN ~(key \in DOMAIN lastVote /\ lastVote[key] = w.nBlockHeight)

\* mapMasternodesLastVote[key] = nBlockHeight
RecordVote(lastVote, key, nBlockHeight) ==
    [k \in DOMAIN lastVote \cup {key} |-> IF k = key THEN nBlockHeight ELSE lastVote[k]]

\* CMasternodePayments::CanVote(winner): mapMasternodesLastVote afterwards
CanVoteRecord(lastVote, w, voteForPhase) ==
    IF CanVote(lastVote, w, voteForPhase)
    THEN RecordVote(lastVote, CanVoteKey(w, voteForPhase), w.nBlockHeight)
    ELSE lastVote

\* a lookup that never finds the vote
NeverStored(votes, w) == FALSE

\* AddWinningMasternode, line 616: mapMasternodePayeeVotes.count(winnerIn.GetHash())
AlreadyStored(votes, w) == GetHash(w) \in DOMAIN votes

\* AddWinningMasternode, lines 609-618: block hash known and vote not yet stored
CanAddWinner(votes, w) ==
    /\ GetBlockHash(w.nBlockHeight - HashLookBack)
    /\ ~AlreadyStored(votes, w)

\* AddWinningMasternode, line 620: mapMasternodePayeeVotes[hash] = winnerIn
InsertVote(votes, w) ==
    [k \in DOMAIN votes \cup {GetHash(w)} |-> IF k = GetHash(w) THEN w ELSE votes[k]]

\* AddWinningMasternode, lines 622-625: create the height's tally when absent
EnsureBlock(blocks, h) ==
    IF h \in DOMAIN blocks THEN blocks
    ELSE [k \in DOMAIN blocks \cup {h} |-> IF k = h THEN BlockPayees(h) ELSE blocks[k]]

\* AddWinningMasternode, line 628: mapMasternodeBlocks[h].AddPayee(script, phase, 1);
\* operator[] default-constructs a tally that was erased in between
TallyVote(blocks, h, script, phase) ==
    LET b == IF h \in DOMAIN blocks THEN blocks[h] ELSE BlockPayees(0)
        nb == [b EXCEPT !.vecPayments = AddPayee(b.vecPayments, script, phase, 1)]
    IN [k \in DOMAIN blocks \cup {h} |-> IF k = h THEN nb ELSE blocks[k]]

\* CMasternodePayments::GetBlockPayee(nBlockHeight, mnLevel, payee): the script of
\* the leading payee, EmptyScript for false
GetBlockPayee(blocks, h, level) ==
    IF h \in DOMAIN blocks /\ GetPayee(blocks[h].vecPayments, level) > 0
    THEN blocks[h].vecPayments[GetPayee(blocks[h].vecPayments, level)].scriptPubKey
    ELSE EmptyScript

\* the votes of the leading payee, -1 for none
GetBlockPayeeVotes(blocks, h, level) ==
    IF h \in DOMAIN blocks /\ GetPayee(blocks[h].vecPayments, level) > 0
    THEN blocks[h].vecPayments[GetPayee(blocks[h].vecPayments, level)].nVotes
    ELSE -1


(***************************************************************************)
(* Inputs                                                                  *)
(***************************************************************************)
\* the tip the node starts at, and the tip after a long run of blocks
Tip0 == 102
LaterTip == Tip0 + WindowAhead + MinRetention + 1

PayeeInputs == Masternodes
VoteHeights == {Tip0 - 3, Tip0 - 2, Tip0 + WindowAhead, Tip0 + WindowAhead + 1}

\* the signature the voter's own key produces over the vote's message
GoodSig(v, h, p) == SignMessage(v, <<Outpoint(v), h, Script(p)>>)

\* one announcement
Mnw(v, h, p, sig) == [vinMasternode |-> v, nBlockHeight |-> h, vinPayee |-> p, vchSig |-> sig]

\* announcements: votes of the eligible voter mn1 for every payee inside the window
\* and for mn1 outside it, some of them with a forged signature; a vote of mn3;
\* a vote of mn2, which ranks outside the top 10
WinnerInputs ==
    {Mnw("mn1", h, p, "good") : h \in {Tip0 - 2, Tip0 + WindowAhead}, p \in PayeeInputs}
    \cup {Mnw("mn1", h, "mn1", "good") : h \in VoteHeights}
    \cup {Mnw("mn1", h, "mn1", "bad") : h \in VoteHeights \ {Tip0 - 3}}
    \cup {Mnw(v, Tip0 + WindowAhead, "mn1", "good") : v \in {"mn2", "mn3"}}

\* vRecv >> winner
Decode(m) ==
    [m EXCEPT !.vchSig = IF m.vchSig = "good"
                         THEN GoodSig(m.vinMasternode, m.nBlockHeight, m.vinPayee)
                         ELSE BadSig]

(***************************************************************************)
(* ProcessMessageMasternodePayments, strCommand == "mnw".  One action per  *)
(* stretch of the handler that other threads cannot split observably:      *)
(* decoding and the unlocked checks; CanVote, SignatureValid and the       *)
(* locked part of AddWinningMasternode (CanVote touches only the guard     *)
(* map); the tally update.  winner and outcome keep the last announcement  *)
(* and the return taken; relayed holds what the last step gave to Relay(). *)
(***************************************************************************)
Return(how) ==
    /\ pc' = "idle"
    /\ outcome' = how

\* the checks with the window test ahead of the duplicate test
AdmissionWindowFirst(w, votes, nHeight) ==
    IF GetPhase(w) = 0 THEN "NoVoterPhase"
    ELSE IF GetPayeePhase(w) = 0 THEN "NoPayeePhase"
    ELSE IF OutOfRange(w, nHeight) THEN "OutOfWindow"
    ELSE IF GetHash(w) \in DOMAIN votes THEN "Duplicate"
    ELSE IF ~IsValid(w) THEN "Invalid"
    ELSE "none"

\* lines 377-430: phase of voter and payee, duplicate, window, IsValid; the return
\* taken, "none" when the handler goes on to CanVote
Admission(w, votes, nHeight) ==
    IF GetPhase(w) = 0 THEN "NoVoterPhase"
    ELSE IF GetPayeePhase(w) = 0 THEN "NoPayeePhase"
    ELSE IF GetHash(w) \in DOMAIN votes THEN "Duplicate"
    ELSE IF OutOfRange(w, nHeight) THEN "OutOfWindow"
    ELSE IF ~IsValid(w) THEN "Invalid"
    ELSE "none"

\* a handler that marks every announcement it returns on as seen
MarkSeenAlways(how, w) == IF how = "none" THEN {} ELSE {GetHash(w)}

\* lines 413-417: of the returns within the checks only the one for a vote already
\* stored calls masternodeSync.AddedMasternodeWinner
MarkSeen(how, w) == IF how = "Duplicate" THEN {GetHash(w)} ELSE {}

\* lines 372-430: decode, then the unlocked checks
MnwCheck ==
    /\ pc = "idle"
    /\ \E m \in WinnerInputs : winner' = Decode(m)
    /\ outcome' = Admission(winner', mapMasternodePayeeVotes, chainTip)
    /\ pc' = IF outcome' = "none" THEN "canvote" ELSE "idle"
    /\ relayed' = {}
    /\ erasedSeen' = {}
    /\ misbehaving' = IF outcome' = "NoVoterPhase" THEN SyncedPenalty(fSynced) ELSE 0
    /\ askedMN' = IF outcome' = "NoVoterPhase" THEN winner'.vinMasternode
                  ELSE IF outcome' = "NoPayeePhase" THEN winner'.vinPayee
                  ELSE "none"
    /\ addedSeen' = MarkSeen(outcome', winner')
    /\ UNCHANGED fSynced
    /\ UNCHANGED <<mapMasternodePayeeVotes, mapMasternodeBlocks, mapMasternodesLastVote,
                   nLastBlockHeight, chainTip, mnodeman>>
    /\ UNCHANGED <<txVars, guardVars, lockVars, ioVars>>

\* lines 402-407: TRY_LOCK(cs_main) fails and the announcement is dropped
MnwNoTipLock ==
    /\ pc = "idle"
    /\ \E m \in WinnerInputs : winner' = Decode(m)
    /\ GetPhase(winner') # 0
    /\ GetPayeePhase(winner') # 0
    /\ Return("NoTipLock")
    /\ relayed' = {}
    /\ erasedSeen' = {}
    /\ misbehaving' = 0
    /\ askedMN' = "none"
    /\ addedSeen' = {}
    /\ UNCHANGED fSynced
    /\ UNCHANGED <<mapMasternodePayeeVotes, mapMasternodeBlocks, mapMasternodesLastVote,
                   nLastBlockHeight, chainTip, mnodeman>>
    /\ UNCHANGED <<txVars, guardVars, lockVars, ioVars>>

\* lines 432-447 and 606-626: CanVote, SignatureValid, then the locked part of
\* AddWinningMasternode
MnwVote ==
    /\ pc = "canvote"
    /\ mapMasternodesLastVote' =
           CanVoteRecord(mapMasternodesLastVote, winner, GetPayeePhase(winner))
    /\ IF ~CanVote(mapMasternodesLastVote, winner, GetPayeePhase(winner)) THEN
            /\ Return("AlreadyVoted")
            /\ UNCHANGED <<mapMasternodePayeeVotes, mapMasternodeBlocks>>
       ELSE IF ~SignatureValid(winner) THEN
            /\ Return("BadSignature")
            /\ UNCHANGED <<mapMasternodePayeeVotes, mapMasternodeBlocks>>
       ELSE IF ~CanAddWinner(mapMasternodePayeeVotes, winner) THEN
            /\ Return("NotAdded")
            /\ UNCHANGED <<mapMasternodePayeeVotes, mapMasternodeBlocks>>
       ELSE /\ mapMasternodePayeeVotes' = InsertVote(mapMasternodePayeeVotes, winner)
            /\ mapMasternodeBlocks' = EnsureBlock(mapMasternodeBlocks, winner.nBlockHeight)
            /\ pc' = "addpayee"
            /\ UNCHANGED outcome
    /\ relayed' = {}
    /\ erasedSeen' = {}
    /\ misbehaving' = IF /\ CanVote(mapMasternodesLastVote, winner, GetPayeePhase(winner))
                         /\ ~SignatureValid(winner)
                      THEN SyncedPenalty(fSynced) ELSE misbehaving
    /\ askedMN' = IF /\ CanVote(mapMasternodesLastVote, winner, GetPayeePhase(winner))
                     /\ ~SignatureValid(winner)
                  THEN winner.vinMasternode ELSE askedMN
    /\ addedSeen' = {}
    /\ UNCHANGED fSynced
    /\ UNCHANGED <<winner, nLastBlockHeight, chainTip, mnodeman>>
    /\ UNCHANGED <<txVars, guardVars, lockVars, ioVars>>

\* lines 628-630 and 448-449: AddPayee, then Relay
MnwAddPayee ==
    /\ pc = "addpayee"
    /\ mapMasternodeBlocks' = TallyVote(mapMasternodeBlocks, winner.nBlockHeight,
                                        GetPayeeScript(winner), GetPayeePhase(winner))
    /\ relayed' = {GetHash(winner)}
    /\ erasedSeen' = {}
    /\ Return("Accepted")
    /\ UNCHANGED <<winner, mapMasternodePayeeVotes, mapMasternodesLastVote,
                   nLastBlockHeight, chainTip, mnodeman>>
    /\ UNCHANGED <<txVars, guardVars, lockVars, ioVars>>
    /\ addedSeen' = {GetHash(winner)}
    /\ UNCHANGED <<fSynced, misbehaving, askedMN>>

(***************************************************************************)
(* CMasternodePayments::ProcessBlock: the local node votes                 *)
(***************************************************************************)
ProcessBlockHeights == {Tip0 - 3, Tip0 + WindowAhead}

\* mnodeman.GetNextMasternodeInQueueForPayment(h + 1, phase, true, nCount): a
\* known masternode of the level, or NULL
QueueChoices ==
    {pick \in [1..PhaseCount -> Masternodes \cup {"none"}] :
        \A ph \in 1..PhaseCount :
            pick[ph] # "none" => (pick[ph] \in mnodeman /\ Level(pick[ph]) = ph)}

\* lines 859-880: the winner ProcessBlock builds and signs for one level
NewWinner(h, pmn) ==
    LET w == [vinMasternode |-> activeMasternode, nBlockHeight |-> h,
              vinPayee |-> pmn, vchSig |-> <<>>]
    IN [w EXCEPT !.vchSig = SignMessage(activeMasternode, StrMessage(w))]

\* AddWinningMasternode as one call (lines 606-631), on the ledger st
AddWinningMasternode(st, w) ==
    IF CanAddWinner(st.votes, w)
    THEN [st EXCEPT !.votes = InsertVote(st.votes, w),
                    !.blocks = TallyVote(EnsureBlock(st.blocks, w.nBlockHeight),
                                         w.nBlockHeight, GetPayeeScript(w),
                                         GetPayeePhase(w)),
                    !.added = TRUE]
    ELSE [st EXCEPT !.added = FALSE]

\* lines 857-888: the loop over the levels
RECURSIVE ProcessBlockLoop(_, _, _, _)
ProcessBlockLoop(st, h, phase, pick) ==
    IF phase > PhaseCount THEN st
    ELSE IF pick[phase] = "none" THEN ProcessBlockLoop(st, h, phase + 1, pick)
    ELSE LET w == NewWinner(h, pick[phase])
             st2 == AddWinningMasternode(st, w)
         IN IF st2.added
            THEN ProcessBlockLoop([st2 EXCEPT !.relayed = @ \cup {GetHash(w)},
                                              !.last = h], h, phase + 1, pick)
            ELSE ProcessBlockLoop(st2, h, phase + 1, pick)

\* lines 821-891
ProcessBlockOn(heights) ==
    \E h \in heights, pick \in QueueChoices :
        /\ Find(activeMasternode)
        /\ Rank(activeMasternode) <= MNPAYMENTS_SIGNATURES_TOTAL
        /\ h > nLastBlockHeight
        /\ LET st == ProcessBlockLoop([votes |-> mapMasternodePayeeVotes,
                                       blocks |-> mapMasternodeBlocks,
                                       relayed |-> {},
                                       last |-> nLastBlockHeight,
                                       added |-> FALSE], h, 1, pick)
           IN /\ mapMasternodePayeeVotes' = st.votes
              /\ mapMasternodeBlocks' = st.blocks
              /\ relayed' = st.relayed
              /\ erasedSeen' = {}
              /\ nLastBlockHeight' = st.last
        /\ UNCHANGED <<mapMasternodesLastVote, chainTip, mnodeman, pc, winner, outcome>>
        /\ UNCHANGED <<txVars, guardVars, lockVars, ioVars>>
        /\ UNCHANGED peerVars

ProcessBlock == ProcessBlockOn(ProcessBlockHeights)

(***************************************************************************)
(* CMasternodePayments::CleanPaymentList                                   *)
(***************************************************************************)
\* a limit without the floor of 1000 blocks
CleanLimitRoster == (Cardinality(mnodeman) * 5) \div 4

\* nLimit = std::max(int(mnodeman.size() * 1.25), 1000)
CleanLimit ==
    IF (Cardinality(mnodeman) * 5) \div 4 > MinRetention
    THEN (Cardinality(mnodeman) * 5) \div 4
    ELSE MinRetention

\* a comparison that also drops the vote exactly nLimit blocks below the tip
TooOldInclusive(w, nHeight) == nHeight - w.nBlockHeight >= CleanLimit

\* nHeight - winner.nBlockHeight > nLimit
TooOld(w, nHeight) == nHeight - w.nBlockHeight > CleanLimit

\* lines 759-786
CleanPaymentList ==
    LET old == {k \in DOMAIN mapMasternodePayeeVotes :
                    TooOld(mapMasternodePayeeVotes[k], chainTip)}
        oldHeights == {mapMasternodePayeeVotes[k].nBlockHeight : k \in old}
    IN /\ old # {}
       /\ mapMasternodePayeeVotes' =
              [k \in DOMAIN mapMasternodePayeeVotes \ old |-> mapMasternodePayeeVotes[k]]
       /\ mapMasternodeBlocks' =
              [h \in DOMAIN mapMasternodeBlocks \ oldHeights |-> mapMasternodeBlocks[h]]
       /\ relayed' = {}
       /\ erasedSeen' = old
       /\ UNCHANGED <<mapMasternodesLastVote, nLastBlockHeight, chainTip, mnodeman, pc,
                      winner, outcome>>
       /\ UNCHANGED <<txVars, guardVars, lockVars, ioVars>>
       /\ UNCHANGED peerVars

(***************************************************************************)
(* The collaborators move: the chain grows, a masternode leaves or joins   *)
(***************************************************************************)
ConnectBlocks ==
    /\ chainTip < LaterTip
    /\ chainTip' = LaterTip
    /\ relayed' = {}
    /\ erasedSeen' = {}
    /\ UNCHANGED <<mapMasternodePayeeVotes, mapMasternodeBlocks, mapMasternodesLastVote,
                   nLastBlockHeight, mnodeman, pc, winner, outcome>>
    /\ UNCHANGED <<txVars, guardVars, lockVars, ioVars>>
    /\ UNCHANGED peerVars

MasternodeLeaves ==
    /\ \E mn \in ChurnNodes \cap mnodeman : mnodeman' = mnodeman \ {mn}
    /\ relayed' = {}
    /\ erasedSeen' = {}
    /\ UNCHANGED <<mapMasternodePayeeVotes, mapMasternodeBlocks, mapMasternodesLastVote,
                   nLastBlockHeight, chainTip, pc, winner, outcome>>
    /\ UNCHANGED <<txVars, guardVars, lockVars, ioVars>>
    /\ UNCHANGED peerVars

MasternodeJoins ==
    /\ \E mn \in ChurnNodes \ mnodeman : mnodeman' = mnodeman \cup {mn}
    /\ relayed' = {}
    /\ erasedSeen' = {}
    /\ UNCHANGED <<mapMasternodePayeeVotes, mapMasternodeBlocks, mapMasternodesLastVote,
                   nLastBlockHeight, chainTip, pc, winner, outcome>>
    /\ UNCHANGED <<txVars, guardVars, lockVars, ioVars>>
    /\ UNCHANGED peerVars

(***************************************************************************)
(* Spec: the ledger with a roster that stays as it starts.                 *)
(* SpecChurn: the announcement handler while mn2 leaves and rejoins.       *)
(***************************************************************************)
EmptyMap == [k \in {} |-> 0]
NoTx == <<>>

\* the roster was not asked
NoPick == [phase \in 1..PhaseCount |-> "none"]

\* neither IsBlockPayeeValid nor ProcessBlock was called
NoCall == [fn |-> "none"]

\* no sync request answered, no snapshot file, no Write or Read under way
InitIo ==
    /\ syncOut = <<>>
    /\ fulfilled = {}
    /\ network = "main"
    /\ file = [exists |-> FALSE, data |-> <<>>, hash |-> <<>>]
    /\ ssObj = <<>>
    /\ wrPc = "idle"
    /\ readResult = "none"
    /\ syncReq = [pfrom |-> "none", nCountNeeded |-> 0]

InitIdle ==
    /\ txNew = NoTx
    /\ txHeight = 0
    /\ txValid = TRUE
    /\ winningNode = NoPick
    /\ ret = NoCall
    /\ cs = "free"
    /\ cvPc = EmptyMap
    /\ cvArg = EmptyMap
    /\ cvRet = EmptyMap
    /\ csBlocks = "free"
    /\ opPc = EmptyMap
    /\ touched = EmptyMap

Init ==
    /\ mapMasternodePayeeVotes = EmptyMap
    /\ mapMasternodeBlocks = EmptyMap
    /\ mapMasternodesLastVote = EmptyMap
    /\ nLastBlockHeight = 0
    /\ chainTip = Tip0
    /\ mnodeman \in {Masternodes, Masternodes \ ChurnNodes}
    /\ pc = "idle"
    /\ winner = NoWinner
    /\ outcome = "none"
    /\ relayed = {}
    /\ erasedSeen = {}
    /\ fSynced = TRUE
    /\ misbehaving = 0
    /\ askedMN = "none"
    /\ addedSeen = {}
    /\ InitIo
    /\ InitIdle

Next ==
    \/ MnwCheck
    \/ MnwNoTipLock
    \/ MnwVote
    \/ MnwAddPayee
    \/ ProcessBlock
    \/ CleanPaymentList
    \/ ConnectBlocks

Spec == Init /\ [][Next]_vars

NextChurn ==
    \/ MnwCheck
    \/ MnwNoTipLock
    \/ MnwVote
    \/ MnwAddPayee
    \/ MasternodeLeaves
    \/ MasternodeJoins

SpecChurn == Init /\ [][NextChurn]_vars

(***************************************************************************)
(* SpecClean: at a late tip the local node has voted for old heights and   *)
(* CleanPaymentList runs, for rosters of several sizes                     *)
(***************************************************************************)
CleanTip == 2000
RosterSizes == {100, 803}

\* a roster of n masternodes; all but mn3 are of level 1
RosterOf(n) == Masternodes \cup {"mn" \o ToString(i) : i \in 4..n}

\* the heights on both sides of tip - floor(1.25 * 803), of tip - 1000 and of
\* tip - 1.25 * 100
CleanHeights ==
    {CleanTip - 1004, CleanTip - 1003, CleanTip - MinRetention - 1,
     CleanTip - MinRetention, CleanTip - 125, CleanTip - 124}

\* the votes the local node cast for these heights (ProcessBlock checks no window)
ProcessOldBlock == ProcessBlockOn(CleanHeights)

InitClean ==
    /\ mapMasternodePayeeVotes = EmptyMap
    /\ mapMasternodeBlocks = EmptyMap
    /\ mapMasternodesLastVote = EmptyMap
    /\ nLastBlockHeight = 0
    /\ chainTip = CleanTip
    /\ mnodeman \in {RosterOf(n) : n \in RosterSizes}
    /\ pc = "idle"
    /\ winner = NoWinner
    /\ outcome = "none"
    /\ relayed = {}
    /\ erasedSeen = {}
    /\ fSynced = TRUE
    /\ misbehaving = 0
    /\ askedMN = "none"
    /\ addedSeen = {}
    /\ InitIo
    /\ InitIdle

NextClean ==
    \/ ProcessOldBlock
    \/ CleanPaymentList

SpecClean == InitClean /\ [][NextClean]_vars

(***************************************************************************)
(* SpecPeer: the "mnw" handler from before the masternode data is synced   *)
(* until after                                                             *)
(***************************************************************************)
\* masternodeSync reaches MASTERNODE_SYNC_FINISHED
SyncFinished ==
    /\ ~fSynced
    /\ fSynced' = TRUE
    /\ UNCHANGED <<mapMasternodePayeeVotes, mapMasternodeBlocks, mapMasternodesLastVote,
                   nLastBlockHeight, chainTip, mnodeman, pc, winner, outcome, relayed, erasedSeen,
                   misbehaving, askedMN, addedSeen>>
    /\ UNCHANGED <<txVars, guardVars, lockVars, ioVars>>

InitPeer ==
    /\ mapMasternodePayeeVotes = EmptyMap
    /\ mapMasternodeBlocks = EmptyMap
    /\ mapMasternodesLastVote = EmptyMap
    /\ nLastBlockHeight = 0
    /\ chainTip = Tip0
    /\ mnodeman \in {Masternodes, Masternodes \ ChurnNodes}
    /\ pc = "idle"
    /\ winner = NoWinner
    /\ outcome = "none"
    /\ relayed = {}
    /\ erasedSeen = {}
    /\ fSynced = FALSE
    /\ misbehaving = 0
    /\ askedMN = "none"
    /\ addedSeen = {}
    /\ InitIo
    /\ InitIdle

NextPeer ==
    \/ MnwCheck
    \/ MnwNoTipLock
    \/ MnwVote
    \/ MnwAddPayee
    \/ SyncFinished

SpecPeer == InitPeer /\ [][NextPeer]_vars

(***************************************************************************)
(* CMasternodeBlockPayees::IsTransactionValid and its caller               *)
(***************************************************************************)
\* GetMasternodePayment(nBlockHeight, masternodePhase, nReward, nDrift, false)
GetMasternodePayment(nBlockHeight, masternodePhase) ==
    IF masternodePhase = 1 THEN 50 ELSE 40

\* a payment that must exceed the required amount
PaidMore(nValue, required) == nValue > required

\* line 684: out.nValue >= requiredMasternodePayment
PaidEnough(nValue, required) == nValue >= required

\* a threshold that the required number of signatures does not reach
FewSignaturesInclusive(nMaxSignatures) == nMaxSignatures <= MNPAYMENTS_SIGNATURES_REQUIRED

\* line 664: nMaxSignatures < MNPAYMENTS_SIGNATURES_REQUIRED
FewSignatures(nMaxSignatures) == nMaxSignatures < MNPAYMENTS_SIGNATURES_REQUIRED

\* a verdict that keeps only the last level's answer
TransactionCorrectLast(transactionCorrect, hasLevelPayment) == hasLevelPayment

\* lines 707-711: if (!hasLevelPayment) transactionCorrect = false
TransactionCorrect(transactionCorrect, hasLevelPayment) ==
    IF ~hasLevelPayment THEN FALSE ELSE transactionCorrect

\* lines 656-661: the highest vote count among the payees of the level
RECURSIVE MaxSignaturesScan(_, _, _, _)
MaxSignaturesScan(vec, masternodePhase, i, nMaxSignatures) ==
    IF i > Len(vec) THEN nMaxSignatures
    ELSE IF vec[i].nVotes >= nMaxSignatures /\ vec[i].masternodeLevel = masternodePhase
         THEN MaxSignaturesScan(vec, masternodePhase, i + 1, vec[i].nVotes)
         ELSE MaxSignaturesScan(vec, masternodePhase, i + 1, nMaxSignatures)

\* lines 682-691: the scan of txNew.vout for one payee
RECURSIVE OutputScan(_, _, _, _)
OutputScan(vout, scriptPubKey, required, o) ==
    IF o > Len(vout) THEN FALSE
    ELSE IF vout[o].scriptPubKey = scriptPubKey /\ PaidEnough(vout[o].nValue, required)
         THEN TRUE
         ELSE OutputScan(vout, scriptPubKey, required, o + 1)

\* lines 672-705: hasLevelPayment after the scan of vecPayments
RECURSIVE LevelPaymentScan(_, _, _, _, _)
LevelPaymentScan(vec, vout, masternodePhase, required, i) ==
    IF i > Len(vec) THEN FALSE
    ELSE IF vec[i].masternodeLevel # masternodePhase
         THEN LevelPaymentScan(vec, vout, masternodePhase, required, i + 1)
    ELSE IF vec[i].nVotes < MNPAYMENTS_SIGNATURES_REQUIRED
         THEN LevelPaymentScan(vec, vout, masternodePhase, required, i + 1)
    ELSE IF OutputScan(vout, vec[i].scriptPubKey, required, 1) THEN TRUE
    ELSE LevelPaymentScan(vec, vout, masternodePhase, required, i + 1)

\* lines 654-712: the loop over the levels
RECURSIVE PhaseLoop(_, _, _, _)
PhaseLoop(b, vout, masternodePhase, transactionCorrect) ==
    IF masternodePhase > PhaseCount THEN transactionCorrect
    ELSE IF FewSignatures(MaxSignaturesScan(b.vecPayments, masternodePhase, 1, 0))
         THEN PhaseLoop(b, vout, masternodePhase + 1, transactionCorrect)
    ELSE PhaseLoop(b, vout, masternodePhase + 1,
                   TransactionCorrect(transactionCorrect,
                       LevelPaymentScan(b.vecPayments, vout, masternodePhase,
                           GetMasternodePayment(b.nBlockHeight, masternodePhase), 1)))

\* CMasternodeBlockPayees::IsTransactionValid(txNew)
BlockIsTransactionValid(b, vout) == PhaseLoop(b, vout, 1, TRUE)

\* CMasternodePayments::IsTransactionValid(txNew, nBlockHeight)
IsTransactionValid(blocks, vout, nBlockHeight) ==
    IF nBlockHeight \in DOMAIN blocks
    THEN BlockIsTransactionValid(blocks[nBlockHeight], vout)
    ELSE TRUE

(***************************************************************************)
(* SpecTally: the tally of one height grows by accepted votes and is       *)
(* asked about candidate transactions, from before its first vote on.  The *)
(* voters are not kept: who ranks in the top 10 changes with the roster,   *)
(* and one voter can be counted more than once at a height.                *)
(***************************************************************************)
MaxVotes == 6
MaxOutputs == 2

TallyHeight == Tip0 + WindowAhead
Amounts == {GetMasternodePayment(TallyHeight, ph) : ph \in 1..PhaseCount}
TxOut == [scriptPubKey : {Script(m) : m \in Masternodes}, nValue : Amounts]
TxInputs == UNION {[1..n -> TxOut] : n \in 0..MaxOutputs}

\* the votes the tally of height h holds for (script, level), 0 without an entry
TallyCount(blocks, h, script, level) ==
    IF h \in DOMAIN blocks /\ PayeeIndex(blocks[h].vecPayments, script, level) > 0
    THEN blocks[h].vecPayments[PayeeIndex(blocks[h].vecPayments, script, level)].nVotes
    ELSE 0

\* AddWinningMasternode, lines 622-628, for a vote that passed the checks
AcceptedVote ==
    /\ \E p \in Masternodes :
        /\ TallyCount(mapMasternodeBlocks, TallyHeight, Script(p), Level(p)) < MaxVotes
        /\ mapMasternodeBlocks' =
               TallyVote(EnsureBlock(mapMasternodeBlocks, TallyHeight), TallyHeight,
                         Script(p), Level(p))
    /\ UNCHANGED <<mapMasternodePayeeVotes, mapMasternodesLastVote, nLastBlockHeight,
                   chainTip, mnodeman, pc, winner, outcome, relayed, erasedSeen>>
    /\ UNCHANGED <<txVars, guardVars, lockVars, ioVars>>
    /\ UNCHANGED peerVars

\* IsBlockPayeeValid: masternodePayments.IsTransactionValid(txNew, nBlockHeight)
ValidateTransaction ==
    /\ \E tx \in TxInputs :
        /\ txNew' = tx
        /\ txHeight' = TallyHeight
        /\ txValid' = IsTransactionValid(mapMasternodeBlocks, tx, TallyHeight)
    /\ UNCHANGED <<winningNode, ret>>
    /\ UNCHANGED ledgerVars
    /\ UNCHANGED <<guardVars, lockVars, ioVars>>

InitTally ==
    /\ mapMasternodePayeeVotes = EmptyMap
    /\ mapMasternodeBlocks = EmptyMap
    /\ mapMasternodesLastVote = EmptyMap
    /\ nLastBlockHeight = 0
    /\ chainTip = Tip0
    /\ mnodeman = Masternodes
    /\ pc = "idle"
    /\ winner = NoWinner
    /\ outcome = "none"
    /\ relayed = {}
    /\ erasedSeen = {}
    /\ fSynced = TRUE
    /\ misbehaving = 0
    /\ askedMN = "none"
    /\ addedSeen = {}
    /\ InitIo
    /\ InitIdle

NextTally ==
    \/ AcceptedVote
    \/ ValidateTransaction

SpecTally == InitTally /\ [][NextTally]_vars

(***************************************************************************)
(* SpecGuard: two threads call CanVote, one step per statement             *)
(***************************************************************************)
Callers == {"t1", "t2"}

GuardInputs ==
    {Mnw("mn1", h, p, "good") : h \in {Tip0 - 2, Tip0 + WindowAhead}, p \in {"mn1", "mn3"}}

\* a critical section that lets every thread in
LockableAlways(holder) == TRUE

\* LOCK(cs_mapMasternodePayeeVotes) returns once no thread holds the section
Lockable(holder) == holder = "free"

\* header lines 353-355: the arguments are read before the lock is taken
CvCall(t) ==
    /\ cvPc[t] = "idle"
    /\ \E m \in GuardInputs :
          cvArg' = [cvArg EXCEPT ![t] = [w |-> Decode(m),
                                         voteForPhase |-> GetPayeePhase(Decode(m))]]
    /\ cvPc' = [cvPc EXCEPT ![t] = "lock"]
    /\ UNCHANGED <<cs, cvRet>>
    /\ UNCHANGED ledgerVars
    /\ UNCHANGED <<txVars, lockVars, ioVars>>

\* header line 357: LOCK(cs_mapMasternodePayeeVotes)
CvLock(t) ==
    /\ cvPc[t] = "lock"
    /\ Lockable(cs)
    /\ cs' = t
    /\ cvPc' = [cvPc EXCEPT ![t] = "check"]
    /\ UNCHANGED <<cvArg, cvRet>>
    /\ UNCHANGED ledgerVars
    /\ UNCHANGED <<txVars, lockVars, ioVars>>

\* header lines 359-364: the lookup; return false when the height is the recorded one
CvCheck(t) ==
    /\ cvPc[t] = "check"
    /\ IF CanVote(mapMasternodesLastVote, cvArg[t].w, cvArg[t].voteForPhase)
       THEN /\ cvPc' = [cvPc EXCEPT ![t] = "record"]
            /\ UNCHANGED cvRet
       ELSE /\ cvPc' = [cvPc EXCEPT ![t] = "unlock"]
            /\ cvRet' = [cvRet EXCEPT ![t] = FALSE]
    /\ UNCHANGED <<cs, cvArg>>
    /\ UNCHANGED ledgerVars
    /\ UNCHANGED <<txVars, lockVars, ioVars>>

\* header lines 366-368: record the height and return true
CvRecord(t) ==
    /\ cvPc[t] = "record"
    /\ mapMasternodesLastVote' =
           RecordVote(mapMasternodesLastVote,
                      CanVoteKey(cvArg[t].w, cvArg[t].voteForPhase),
                      cvArg[t].w.nBlockHeight)
    /\ cvRet' = [cvRet EXCEPT ![t] = TRUE]
    /\ cvPc' = [cvPc EXCEPT ![t] = "unlock"]
    /\ UNCHANGED <<cs, cvArg>>
    /\ UNCHANGED <<mapMasternodePayeeVotes, mapMasternodeBlocks, nLastBlockHeight,
                   chainTip, mnodeman, pc, winner, outcome, relayed, erasedSeen>>
    /\ UNCHANGED <<txVars, lockVars, ioVars>>
    /\ UNCHANGED peerVars

\* the lock object goes out of scope on return
CvUnlock(t) ==
    /\ cvPc[t] = "unlock"
    /\ cs' = IF cs = t THEN "free" ELSE cs
    /\ cvPc' = [cvPc EXCEPT ![t] = "idle"]
    /\ UNCHANGED <<cvArg, cvRet>>
    /\ UNCHANGED ledgerVars
    /\ UNCHANGED <<txVars, lockVars, ioVars>>

InitGuard ==
    /\ mapMasternodePayeeVotes = EmptyMap
    /\ mapMasternodeBlocks = EmptyMap
    /\ mapMasternodesLastVote = EmptyMap
    /\ nLastBlockHeight = 0
    /\ chainTip = Tip0
    /\ mnodeman = Masternodes
    /\ pc = "idle"
    /\ winner = NoWinner
    /\ outcome = "none"
    /\ relayed = {}
    /\ erasedSeen = {}
    /\ fSynced = TRUE
    /\ misbehaving = 0
    /\ askedMN = "none"
    /\ addedSeen = {}
    /\ InitIo
    /\ txNew = NoTx
    /\ txHeight = 0
    /\ txValid = TRUE
    /\ winningNode = NoPick
    /\ ret = NoCall
    /\ cs = "free"
    /\ cvPc = [t \in Callers |-> "idle"]
    /\ cvArg = [t \in Callers |-> [w |-> NoWinner, voteForPhase |-> 0]]
    /\ cvRet = [t \in Callers |-> TRUE]
    /\ csBlocks = "free"
    /\ opPc = EmptyMap
    /\ touched = EmptyMap

NextGuard ==
    \/ \E t \in Callers : CvCall(t)
    \/ \E t \in Callers : CvLock(t)
    \/ \E t \in Callers : CvCheck(t)
    \/ \E t \in Callers : CvRecord(t)
    \/ \E t \in Callers : CvUnlock(t)

SpecGuard == InitGuard /\ [][NextGuard]_vars

(***************************************************************************)
(* SpecLocks: the operations on mapMasternodePayeeVotes and                *)
(* mapMasternodeBlocks as threads, one step per lock acquisition and per   *)
(* stretch of map accesses between two lock operations.  touched names the *)
(* maps the step just taken read or wrote.                                 *)
(***************************************************************************)
Ops == {"mnw", "clean", "clear", "payee", "validate", "sync"}

\* the announcements the handler thread receives
LockInputs == {Mnw("mn1", Tip0 - 2, p, "good") : p \in {"mn1", "mn3"}}

\* the height GetBlockPayee and IsTransactionValid are asked about
PayeeHeight == Tip0 - 2

\* thread t moves to position next; its step accessed the maps in acc
Goto(t, next, acc) ==
    /\ opPc' = [opPc EXCEPT ![t] = next]
    /\ touched' = [o \in Ops |-> IF o = t THEN acc ELSE {}]

\* the outputs of a step that reports nothing
NoOutput ==
    /\ relayed' = {}
    /\ erasedSeen' = {}
    /\ UNCHANGED <<pc, outcome, nLastBlockHeight, mnodeman>>
    /\ UNCHANGED peerVars
    /\ UNCHANGED <<txVars, cvPc, cvArg, cvRet>>
    /\ UNCHANGED ioVars

\* operator[] on the tally index: a missing height gets a default-constructed tally
IndexBlock(blocks, h) ==
    IF h \in DOMAIN blocks THEN blocks
    ELSE [k \in DOMAIN blocks \cup {h} |-> IF k = h THEN BlockPayees(0) ELSE blocks[k]]

\* mnodeman.CountEnabled()
CountEnabled == Cardinality(mnodeman)

\* the requested count capped at 1.25 times the enabled masternodes, rounded up
SyncClampCeil(nCountNeeded) ==
    LET nCount == (CountEnabled * 5 + 3) \div 4
    IN IF nCountNeeded > nCount THEN nCount ELSE nCountNeeded

\* Sync, lines 928-929: int nCount = (mnodeman.CountEnabled() * 1.25);
\* if (nCountNeeded > nCount) nCountNeeded = nCount
SyncClamp(nCountNeeded) ==
    LET nCount == (CountEnabled * 5) \div 4
    IN IF nCountNeeded > nCount THEN nCount ELSE nCountNeeded

\* Sync, lines 931-940: the hashes pushed to the peer
SyncInventory(votes, nHeight, nCountNeeded) ==
    {k \in DOMAIN votes :
        /\ votes[k].nBlockHeight >= nHeight - SyncClamp(nCountNeeded)
        /\ votes[k].nBlockHeight <= nHeight + WindowAhead}

\* cpp lines 372-430: decode and the unlocked checks, the lookup of the vote's hash
\* at line 413 among them
LkSeen ==
    /\ opPc["mnw"] = "idle"
    /\ \E m \in LockInputs : winner' = Decode(m)
    /\ Goto("mnw",
            IF Admission(winner', mapMasternodePayeeVotes, chainTip) = "none"
            THEN "canvote" ELSE "idle",
            IF GetPhase(winner') # 0 /\ GetPayeePhase(winner') # 0
            THEN {"votes"} ELSE {})
    /\ NoOutput
    /\ UNCHANGED <<mapMasternodePayeeVotes, mapMasternodeBlocks, mapMasternodesLastVote,
                   chainTip, cs, csBlocks>>

\* cpp lines 432-445: CanVote, which takes and releases cs_mapMasternodePayeeVotes
\* around the guard map, then SignatureValid
LkCanVote ==
    /\ opPc["mnw"] = "canvote"
    /\ Lockable(cs)
    /\ mapMasternodesLastVote' =
           CanVoteRecord(mapMasternodesLastVote, winner, GetPayeePhase(winner))
    /\ Goto("mnw",
            IF /\ CanVote(mapMasternodesLastVote, winner, GetPayeePhase(winner))
               /\ SignatureValid(winner)
               /\ GetBlockHash(winner.nBlockHeight - HashLookBack)
            THEN "lockvotes" ELSE "idle", {})
    /\ NoOutput
    /\ UNCHANGED <<mapMasternodePayeeVotes, mapMasternodeBlocks, winner, chainTip,
                   cs, csBlocks>>

\* cpp line 614, LOCK2: first cs_mapMasternodePayeeVotes
LkAddLockVotes ==
    /\ opPc["mnw"] = "lockvotes"
    /\ Lockable(cs)
    /\ cs' = "mnw"
    /\ Goto("mnw", "lockblocks", {})
    /\ NoOutput
    /\ UNCHANGED <<mapMasternodePayeeVotes, mapMasternodeBlocks, mapMasternodesLastVote,
                   winner, chainTip, csBlocks>>

\* cpp line 614, LOCK2: then cs_mapMasternodeBlocks
LkAddLockBlocks ==
    /\ opPc["mnw"] = "lockblocks"
    /\ Lockable(csBlocks)
    /\ csBlocks' = "mnw"
    /\ Goto("mnw", "insert", {})
    /\ NoOutput
    /\ UNCHANGED <<mapMasternodePayeeVotes, mapMasternodeBlocks, mapMasternodesLastVote,
                   winner, chainTip, cs>>

\* cpp lines 616-625: the duplicate test, the insertion, the tally created when absent
LkAddInsert ==
    /\ opPc["mnw"] = "insert"
    /\ IF AlreadyStored(mapMasternodePayeeVotes, winner)
       THEN /\ Goto("mnw", "unlockdup", {"votes"})
            /\ UNCHANGED <<mapMasternodePayeeVotes, mapMasternodeBlocks>>
       ELSE /\ mapMasternodePayeeVotes' = InsertVote(mapMasternodePayeeVotes, winner)
            /\ mapMasternodeBlocks' = EnsureBlock(mapMasternodeBlocks, winner.nBlockHeight)
            /\ Goto("mnw", "unlock", {"votes", "blocks"})
    /\ NoOutput
    /\ UNCHANGED <<mapMasternodesLastVote, winner, chainTip, cs, csBlocks>>

\* cpp lines 617 and 626: both sections are left, at the return or at the end of
\* the block
LkAddUnlock ==
    /\ opPc["mnw"] \in {"unlock", "unlockdup"}
    /\ cs' = "free"
    /\ csBlocks' = "free"
    /\ Goto("mnw", IF opPc["mnw"] = "unlock" THEN "addpayee" ELSE "idle", {})
    /\ NoOutput
    /\ UNCHANGED <<mapMasternodePayeeVotes, mapMasternodeBlocks, mapMasternodesLastVote,
                   winner, chainTip>>

\* cpp line 628: mapMasternodeBlocks[h].AddPayee(...), after the block with the locks
LkAddPayee ==
    /\ opPc["mnw"] = "addpayee"
    /\ mapMasternodeBlocks' = TallyVote(mapMasternodeBlocks, winner.nBlockHeight,
                                        GetPayeeScript(winner), GetPayeePhase(winner))
    /\ Goto("mnw", "idle", {"blocks"})
    /\ NoOutput
    /\ UNCHANGED <<mapMasternodePayeeVotes, mapMasternodesLastVote, winner, chainTip,
                   cs, csBlocks>>

\* cpp line 761, LOCK2: first cs_mapMasternodePayeeVotes
LkCleanLockVotes ==
    /\ opPc["clean"] = "idle"
    /\ Lockable(cs)
    /\ cs' = "clean"
    /\ Goto("clean", "lockblocks", {})
    /\ NoOutput
    /\ UNCHANGED <<mapMasternodePayeeVotes, mapMasternodeBlocks, mapMasternodesLastVote,
                   winner, chainTip, csBlocks>>

\* cpp line 761, LOCK2: then cs_mapMasternodeBlocks
LkCleanLockBlocks ==
    /\ opPc["clean"] = "lockblocks"
    /\ Lockable(csBlocks)
    /\ csBlocks' = "clean"
    /\ Goto("clean", "erase", {})
    /\ NoOutput
    /\ UNCHANGED <<mapMasternodePayeeVotes, mapMasternodeBlocks, mapMasternodesLastVote,
                   winner, chainTip, cs>>

\* cpp lines 763-785: the loop that erases the old votes and their tallies
LkCleanErase ==
    LET old == {k \in DOMAIN mapMasternodePayeeVotes :
                    TooOld(mapMasternodePayeeVotes[k], chainTip)}
        oldHeights == {mapMasternodePayeeVotes[k].nBlockHeight : k \in old}
    IN /\ opPc["clean"] = "erase"
       /\ mapMasternodePayeeVotes' =
              [k \in DOMAIN mapMasternodePayeeVotes \ old |-> mapMasternodePayeeVotes[k]]
       /\ mapMasternodeBlocks' =
              [h \in DOMAIN mapMasternodeBlocks \ oldHeights |-> mapMasternodeBlocks[h]]
       /\ Goto("clean", "unlock", IF old = {} THEN {"votes"} ELSE {"votes", "blocks"})
       /\ relayed' = {}
       /\ erasedSeen' = old
       /\ UNCHANGED <<pc, outcome, nLastBlockHeight, mnodeman>>
       /\ UNCHANGED peerVars
       /\ UNCHANGED <<txVars, cvPc, cvArg, cvRet>>
       /\ UNCHANGED ioVars
    /\ UNCHANGED ioVars
       /\ UNCHANGED <<mapMasternodesLastVote, winner, chainTip, cs, csBlocks>>

\* cpp line 786: the function returns
LkCleanUnlock ==
    /\ opPc["clean"] = "unlock"
    /\ cs' = "free"
    /\ csBlocks' = "free"
    /\ Goto("clean", "idle", {})
    /\ NoOutput
    /\ UNCHANGED <<mapMasternodePayeeVotes, mapMasternodeBlocks, mapMasternodesLastVote,
                   winner, chainTip>>

\* header line 319, LOCK2: first cs_mapMasternodeBlocks
LkClearLockBlocks ==
    /\ opPc["clear"] = "idle"
    /\ Lockable(csBlocks)
    /\ csBlocks' = "clear"
    /\ Goto("clear", "lockvotes", {})
    /\ NoOutput
    /\ UNCHANGED <<mapMasternodePayeeVotes, mapMasternodeBlocks, mapMasternodesLastVote,
                   winner, chainTip, cs>>

\* header line 319, LOCK2: then cs_mapMasternodePayeeVotes
LkClearLockVotes ==
    /\ opPc["clear"] = "lockvotes"
    /\ Lockable(cs)
    /\ cs' = "clear"
    /\ Goto("clear", "clear", {})
    /\ NoOutput
    /\ UNCHANGED <<mapMasternodePayeeVotes, mapMasternodeBlocks, mapMasternodesLastVote,
                   winner, chainTip, csBlocks>>

\* header lines 320-321: both maps are emptied
LkClearMaps ==
    /\ opPc["clear"] = "clear"
    /\ mapMasternodeBlocks' = EmptyMap
    /\ mapMasternodePayeeVotes' = EmptyMap
    /\ Goto("clear", "unlock", {"votes", "blocks"})
    /\ NoOutput
    /\ UNCHANGED <<mapMasternodesLastVote, winner, chainTip, cs, csBlocks>>

\* header line 322: the function returns
LkClearUnlock ==
    /\ opPc["clear"] = "unlock"
    /\ cs' = "free"
    /\ csBlocks' = "free"
    /\ Goto("clear", "idle", {})
    /\ NoOutput
    /\ UNCHANGED <<mapMasternodePayeeVotes, mapMasternodeBlocks, mapMasternodesLastVote,
                   winner, chainTip>>

\* cpp line 531: GetBlockPayee looks the height up, without a lock
LkPayeeCount ==
    /\ opPc["payee"] = "idle"
    /\ Goto("payee", IF PayeeHeight \in DOMAIN mapMasternodeBlocks THEN "index" ELSE "idle",
            {"blocks"})
    /\ NoOutput
    /\ UNCHANGED <<mapMasternodePayeeVotes, mapMasternodeBlocks, mapMasternodesLastVote,
                   winner, chainTip, cs, csBlocks>>

\* cpp line 532: mapMasternodeBlocks[nBlockHeight].GetPayee(payee, mnLevel)
LkPayeeIndex ==
    /\ opPc["payee"] = "index"
    /\ mapMasternodeBlocks' = IndexBlock(mapMasternodeBlocks, PayeeHeight)
    /\ Goto("payee", "idle", {"blocks"})
    /\ NoOutput
    /\ UNCHANGED <<mapMasternodePayeeVotes, mapMasternodesLastVote, winner, chainTip,
                   cs, csBlocks>>

\* cpp line 750: LOCK(cs_mapMasternodeBlocks)
LkValidateLock ==
    /\ opPc["validate"] = "idle"
    /\ Lockable(csBlocks)
    /\ csBlocks' = "validate"
    /\ Goto("validate", "read", {})
    /\ NoOutput
    /\ UNCHANGED <<mapMasternodePayeeVotes, mapMasternodeBlocks, mapMasternodesLastVote,
                   winner, chainTip, cs>>

\* cpp lines 752-756: the tally of the height judges the transaction
LkValidateRead ==
    /\ opPc["validate"] = "read"
    /\ \E tx \in {NoTx, <<[scriptPubKey |-> Script("mn1"), nValue |-> GetMasternodePayment(PayeeHeight, 1)]>>} :
        /\ txNew' = tx
        /\ txHeight' = PayeeHeight
        /\ txValid' = IsTransactionValid(mapMasternodeBlocks, tx, PayeeHeight)
    /\ UNCHANGED <<winningNode, ret>>
    /\ Goto("validate", "unlock", {"blocks"})
    /\ relayed' = {}
    /\ erasedSeen' = {}
    /\ UNCHANGED <<pc, outcome, nLastBlockHeight, mnodeman>>
    /\ UNCHANGED peerVars
    /\ UNCHANGED <<cvPc, cvArg, cvRet>>
    /\ UNCHANGED ioVars
    /\ UNCHANGED <<mapMasternodePayeeVotes, mapMasternodeBlocks, mapMasternodesLastVote,
                   winner, chainTip, cs, csBlocks>>

\* cpp line 757: the function returns
LkValidateUnlock ==
    /\ opPc["validate"] = "unlock"
    /\ csBlocks' = "free"
    /\ Goto("validate", "idle", {})
    /\ NoOutput
    /\ UNCHANGED <<mapMasternodePayeeVotes, mapMasternodeBlocks, mapMasternodesLastVote,
                   winner, chainTip, cs>>

\* cpp line 919: LOCK(cs_mapMasternodePayeeVotes)
LkSyncLock ==
    /\ opPc["sync"] = "idle"
    /\ Lockable(cs)
    /\ cs' = "sync"
    /\ Goto("sync", "read", {})
    /\ NoOutput
    /\ UNCHANGED <<mapMasternodePayeeVotes, mapMasternodeBlocks, mapMasternodesLastVote,
                   winner, chainTip, csBlocks>>

\* cpp lines 921-941: the votes near the tip are announced to the peer
LkSyncRead ==
    /\ opPc["sync"] = "read"
    /\ \E nCountNeeded \in {1, 5} :
          relayed' = SyncInventory(mapMasternodePayeeVotes, chainTip, nCountNeeded)
    /\ erasedSeen' = {}
    /\ Goto("sync", "unlock", {"votes"})
    /\ UNCHANGED <<pc, outcome, nLastBlockHeight, mnodeman>>
    /\ UNCHANGED peerVars
    /\ UNCHANGED <<txVars, cvPc, cvArg, cvRet>>
    /\ UNCHANGED ioVars
    /\ UNCHANGED <<mapMasternodePayeeVotes, mapMasternodeBlocks, mapMasternodesLastVote,
                   winner, chainTip, cs, csBlocks>>

\* cpp line 942: the function returns
LkSyncUnlock ==
    /\ opPc["sync"] = "unlock"
    /\ cs' = "free"
    /\ Goto("sync", "idle", {})
    /\ NoOutput
    /\ UNCHANGED <<mapMasternodePayeeVotes, mapMasternodeBlocks, mapMasternodesLastVote,
                   winner, chainTip, csBlocks>>

\* the chain grows while the threads run
LkConnectBlocks ==
    /\ chainTip < LaterTip
    /\ chainTip' = LaterTip
    /\ touched' = [o \in Ops |-> {}]
    /\ NoOutput
    /\ UNCHANGED <<mapMasternodePayeeVotes, mapMasternodeBlocks, mapMasternodesLastVote,
                   winner, cs, csBlocks, opPc>>

InitLocks ==
    /\ mapMasternodePayeeVotes = EmptyMap
    /\ mapMasternodeBlocks = EmptyMap
    /\ mapMasternodesLastVote = EmptyMap
    /\ nLastBlockHeight = 0
    /\ chainTip = Tip0
    /\ mnodeman = Masternodes
    /\ pc = "idle"
    /\ winner = NoWinner
    /\ outcome = "none"
    /\ relayed = {}
    /\ erasedSeen = {}
    /\ fSynced = TRUE
    /\ misbehaving = 0
    /\ askedMN = "none"
    /\ addedSeen = {}
    /\ InitIo
    /\ txNew = NoTx
    /\ txHeight = 0
    /\ txValid = TRUE
    /\ winningNode = NoPick
    /\ ret = NoCall
    /\ cs = "free"
    /\ cvPc = EmptyMap
    /\ cvArg = EmptyMap
    /\ cvRet = EmptyMap
    /\ csBlocks = "free"
    /\ opPc = [o \in Ops |-> "idle"]
    /\ touched = [o \in Ops |-> {}]

NextLocks ==
    \/ LkSeen
    \/ LkCanVote
    \/ LkAddLockVotes
    \/ LkAddLockBlocks
    \/ LkAddInsert
    \/ LkAddUnlock
    \/ LkAddPayee
    \/ LkCleanLockVotes
    \/ LkCleanLockBlocks
    \/ LkCleanErase
    \/ LkCleanUnlock
    \/ LkClearLockBlocks
    \/ LkClearLockVotes
    \/ LkClearMaps
    \/ LkClearUnlock
    \/ LkPayeeCount
    \/ LkPayeeIndex
    \/ LkValidateLock
    \/ LkValidateRead
    \/ LkValidateUnlock
    \/ LkSyncLock
    \/ LkSyncRead
    \/ LkSyncUnlock
    \/ LkConnectBlocks

SpecLocks == InitLocks /\ [][NextLocks]_vars

(***************************************************************************)
(* CMasternodePaymentDB: mnpayments.dat.  The file is the sequence of the  *)
(* fields written (magic message, network magic, the two maps) and the     *)
(* checksum over them; a truncated file is a shorter sequence.             *)
(***************************************************************************)
\* CMasternodePaymentDB::CMasternodePaymentDB: strMagicMessage
strMagicMessage == "MasternodePayments"

\* Params().MessageStart() of a network
MessageStart(net) == <<"pch", net>>

\* Hash(ssObj.begin(), ssObj.end())
Hash(data) == <<"hash", data>>

NoFile == [exists |-> FALSE, data |-> <<>>, hash |-> <<>>]

\* CMasternodePaymentWinner::SerializationOp with the version of the disk format
SerializeWinner(w) == <<w.vinMasternode, w.nBlockHeight, w.vinPayee, w.vchSig>>
UnserializeWinner(t) ==
    [vinMasternode |-> t[1], nBlockHeight |-> t[2], vinPayee |-> t[3], vchSig |-> t[4]]

\* a payee read back without its vote count
UnserializePayeeNoVotes(t) == [scriptPubKey |-> t[1], masternodeLevel |-> t[2], nVotes |-> 0]

\* CMasternodePayee::SerializationOp
SerializePayee(p) == <<p.scriptPubKey, p.masternodeLevel, p.nVotes>>
UnserializePayee(t) == [scriptPubKey |-> t[1], masternodeLevel |-> t[2], nVotes |-> t[3]]

\* CMasternodeBlockPayees::SerializationOp
SerializeBlockPayees(b) ==
    <<b.nBlockHeight, [i \in DOMAIN b.vecPayments |-> SerializePayee(b.vecPayments[i])]>>
UnserializeBlockPayees(t) ==
    [nBlockHeight |-> t[1], vecPayments |-> [i \in DOMAIN t[2] |-> UnserializePayee(t[2][i])]]

\* READWRITE of a std::map: its (key, value) pairs
SerializeVotes(votes) == {<<k, SerializeWinner(votes[k])>> : k \in DOMAIN votes}
SerializeBlocks(blocks) == {<<h, SerializeBlockPayees(blocks[h])>> : h \in DOMAIN blocks}

UnserializeVotes(pairs) ==
    [k \in {p[1] : p \in pairs} |->
        UnserializeWinner((CHOOSE p \in pairs : p[1] = k)[2])]
UnserializeBlocks(pairs) ==
    [h \in {p[1] : p \in pairs} |->
        UnserializeBlockPayees((CHOOSE p \in pairs : p[1] = h)[2])]

\* cpp lines 43-45 and header line 384: the magic message, the network magic and
\* mapMasternodePayeeVotes go into the stream; no lock is taken and no copy made
WriteVotes ==
    /\ wrPc = "idle"
    /\ ssObj' = <<strMagicMessage, MessageStart(network),
                  SerializeVotes(mapMasternodePayeeVotes)>>
    /\ wrPc' = "blocks"
    /\ relayed' = {}
    /\ erasedSeen' = {}
    /\ UNCHANGED <<mapMasternodePayeeVotes, mapMasternodeBlocks, mapMasternodesLastVote,
                   nLastBlockHeight, chainTip, mnodeman, pc, winner, outcome>>
    /\ UNCHANGED peerVars
    /\ UNCHANGED <<txVars, guardVars, lockVars>>
    /\ UNCHANGED <<syncReq, syncOut, fulfilled, network, file, readResult>>

\* header line 385 and cpp lines 46-66: mapMasternodeBlocks goes into the stream,
\* the checksum is appended and the stream written to the file; when the file
\* cannot be opened nothing is written
WriteBlocks ==
    /\ wrPc = "blocks"
    /\ LET data == Append(ssObj, SerializeBlocks(mapMasternodeBlocks))
       IN \E opened \in BOOLEAN :
             file' = IF opened
                     THEN [exists |-> TRUE, data |-> data, hash |-> Hash(data)]
                     ELSE file
    /\ ssObj' = <<>>
    /\ wrPc' = "idle"
    /\ relayed' = {}
    /\ erasedSeen' = {}
    /\ UNCHANGED <<mapMasternodePayeeVotes, mapMasternodeBlocks, mapMasternodesLastVote,
                   nLastBlockHeight, chainTip, mnodeman, pc, winner, outcome>>
    /\ UNCHANGED peerVars
    /\ UNCHANGED <<txVars, guardVars, lockVars>>
    /\ UNCHANGED <<syncReq, syncOut, fulfilled, network, readResult>>

\* CleanPaymentList on a ledger: the votes it erases, and what it leaves
OldVotes(votes, nHeight) == {k \in DOMAIN votes : TooOld(votes[k], nHeight)}
CleanedVotes(votes, nHeight) ==
    [k \in DOMAIN votes \ OldVotes(votes, nHeight) |-> votes[k]]
CleanedBlocks(votes, blocks, nHeight) ==
    [h \in DOMAIN blocks \ {votes[k].nBlockHeight : k \in OldVotes(votes, nHeight)}
        |-> blocks[h]]

\* the checks with the magic message looked at before the checksum
ReadChecksMagicFirst(f) ==
    IF ~f.exists THEN "FileError"
    ELSE IF f.hash = <<>> THEN "HashReadError"
    ELSE IF Len(f.data) >= 1 /\ f.data[1] # strMagicMessage THEN "IncorrectMagicMessage"
    ELSE IF f.hash # Hash(f.data) THEN "IncorrectHash"
    ELSE IF Len(f.data) < 1 THEN "IncorrectFormat"
    ELSE IF Len(f.data) < 2 THEN "IncorrectFormat"
    ELSE IF f.data[2] # MessageStart(network) THEN "IncorrectMagicNumber"
    ELSE IF Len(f.data) < 4 THEN "IncorrectFormat"
    ELSE "Ok"

\* cpp lines 73-137: what Read returns for the file; a field that is missing
\* makes the stream throw, which is caught at line 133
ReadChecks(f) ==
    IF ~f.exists THEN "FileError"
    ELSE IF f.hash = <<>> THEN "HashReadError"
    ELSE IF f.hash # Hash(f.data) THEN "IncorrectHash"
    ELSE IF Len(f.data) < 1 THEN "IncorrectFormat"
    ELSE IF f.data[1] # strMagicMessage THEN "IncorrectMagicMessage"
    ELSE IF Len(f.data) < 2 THEN "IncorrectFormat"
    ELSE IF f.data[2] # MessageStart(network) THEN "IncorrectMagicNumber"
    ELSE IF Len(f.data) < 4 THEN "IncorrectFormat"
    ELSE "Ok"

\* a Read that clears the ledger on every failure
LoadedClearAlways(result, current, loaded) ==
    IF result = "Ok" THEN loaded ELSE EmptyMap

\* a Read that leaves the ledger alone when the payload is malformed
LoadedKeep(result, current, loaded) ==
    IF result = "Ok" THEN loaded ELSE current

\* cpp lines 131-134: the map objToLoad holds after the try block: the one read
\* from the file, the empty one after Clear(), or the one it held before
Loaded(result, current, loaded) ==
    IF result = "Ok" THEN loaded
    ELSE IF result = "IncorrectFormat" THEN EmptyMap
    ELSE current

\* cpp lines 69-149: CMasternodePaymentDB::Read(masternodePayments, fDryRun)
ReadWith(fDryRun) ==
    /\ wrPc = "idle"
    /\ LET result == ReadChecks(file)
            votes == Loaded(result, mapMasternodePayeeVotes,
                            IF result = "Ok" THEN UnserializeVotes(file.data[3])
                            ELSE EmptyMap)
            blocks == Loaded(result, mapMasternodeBlocks,
                             IF result = "Ok" THEN UnserializeBlocks(file.data[4])
                             ELSE EmptyMap)
            clean == result = "Ok" /\ ~fDryRun
        IN /\ readResult' = result
           /\ mapMasternodePayeeVotes' =
                  IF clean THEN CleanedVotes(votes, chainTip) ELSE votes
           /\ mapMasternodeBlocks' =
                  IF clean THEN CleanedBlocks(votes, blocks, chainTip) ELSE blocks
           /\ erasedSeen' = IF clean THEN OldVotes(votes, chainTip) ELSE {}
    /\ relayed' = {}
    /\ UNCHANGED <<mapMasternodesLastVote, nLastBlockHeight, chainTip, mnodeman, pc,
                   winner, outcome>>
    /\ UNCHANGED peerVars
    /\ UNCHANGED <<txVars, guardVars, lockVars>>
    /\ UNCHANGED <<syncReq, syncOut, fulfilled, network, file, ssObj, wrPc>>

\* the callers choose the mode: DumpMasternodePayments (cpp line 159) verifies the
\* format with a dry run, the load at startup cleans the ledger it read
Read == \E fDryRun \in BOOLEAN : ReadWith(fDryRun)

\* the files the disk may hold in place of the one written: another magic message,
\* another network's magic, a truncated payload, a checksum that does not match,
\* a file too short to hold a checksum, no file
DataVariants(d) ==
    {SubSeq([i \in DOMAIN d |-> IF i = 1 THEN m ELSE IF i = 2 THEN n ELSE d[i]], 1, len) :
        m \in {d[1], "Budget"}, n \in {d[2], MessageStart("test")}, len \in 0..Len(d)}

FileVariants(f) ==
    UNION {{[exists |-> TRUE, data |-> d, hash |-> h] :
                h \in {Hash(d), <<"hash", d, "flipped">>, <<>>}} :
            d \in DataVariants(f.data)}
    \cup {NoFile}

\* the file is damaged or replaced between a Write and a Read
DamageFile ==
    /\ file.exists
    /\ Len(file.data) = 4
    /\ file.hash = Hash(file.data)
    /\ file' \in FileVariants(file) \ {file}
    /\ relayed' = {}
    /\ erasedSeen' = {}
    /\ UNCHANGED <<mapMasternodePayeeVotes, mapMasternodeBlocks, mapMasternodesLastVote,
                   nLastBlockHeight, chainTip, mnodeman, pc, winner, outcome>>
    /\ UNCHANGED peerVars
    /\ UNCHANGED <<txVars, guardVars, lockVars>>
    /\ UNCHANGED <<syncReq, syncOut, fulfilled, network, ssObj, wrPc, readResult>>

(***************************************************************************)
(* SpecSnapshot: the ledger is written and read back while the local node  *)
(* votes, the chain grows and cleanup runs                                 *)
(***************************************************************************)
InitSnapshot ==
    /\ mapMasternodePayeeVotes = EmptyMap
    /\ mapMasternodeBlocks = EmptyMap
    /\ mapMasternodesLastVote = EmptyMap
    /\ nLastBlockHeight = 0
    /\ chainTip = Tip0
    /\ mnodeman = Masternodes
    /\ pc = "idle"
    /\ winner = NoWinner
    /\ outcome = "none"
    /\ relayed = {}
    /\ erasedSeen = {}
    /\ fSynced = TRUE
    /\ misbehaving = 0
    /\ askedMN = "none"
    /\ addedSeen = {}
    /\ InitIo
    /\ InitIdle

NextSnapshot ==
    \/ ProcessBlock
    \/ ConnectBlocks
    \/ CleanPaymentList
    \/ WriteVotes
    \/ WriteBlocks
    \/ Read
    \/ DamageFile

SpecSnapshot == InitSnapshot /\ [][NextSnapshot]_vars


(***************************************************************************)
(* ProcessMessageMasternodePayments, strCommand == "mnget", and            *)
(* CMasternodePayments::Sync                                               *)
(***************************************************************************)
Peers == {"p1", "p2"}

\* the counts a peer asks for
CountInputs == {-1, 2, 4}

InvMsg(hash) == [type |-> "inv", hash |-> hash, count |-> 0]
SscMsg(nInvCount) == [type |-> "ssc", hash |-> <<>>, count |-> nInvCount]

\* the elements of S in the order the map iterates over them
RECURSIVE InOrder(_)
InOrder(S) ==
    IF S = {} THEN <<>>
    ELSE LET first == CHOOSE k \in S : TRUE
         IN <<first>> \o InOrder(S \ {first})

\* a response without the closing message
SyncTrailerNone(nInvCount) == <<>>

\* Sync, line 941: node->PushMessage("ssc", MASTERNODE_SYNC_MNW, nInvCount)
SyncTrailer(nInvCount) == <<SscMsg(nInvCount)>>

\* Sync, lines 931-941: one inventory item per vote in the range, then the count
SyncMessages(votes, nHeight, nCountNeeded) ==
    LET inv == InOrder(SyncInventory(votes, nHeight, nCountNeeded))
    IN [i \in 1..Len(inv) |-> InvMsg(inv[i])] \o SyncTrailer(Len(inv))

\* a node that turns a second request away on every network
AlreadyAskedAnyNet(net, asked, pfrom) == pfrom \in asked

\* cpp lines 359-365: on the main network a peer that asked before is turned away
AlreadyAsked(net, asked, pfrom) == net = "main" /\ pfrom \in asked

\* cpp lines 346-369 and 917-942: the request of a peer; the handler ignores it while
\* the blockchain is not synced, and Sync returns without a message when
\* TRY_LOCK(cs_main) fails
MnGet ==
    /\ \E pfrom \in Peers, nCountNeeded \in CountInputs,
          fBlockchainSynced \in BOOLEAN, locked \in BOOLEAN :
        IF ~fBlockchainSynced
        THEN UNCHANGED <<syncReq, syncOut, fulfilled, misbehaving>>
        ELSE /\ syncReq' = [pfrom |-> pfrom, nCountNeeded |-> nCountNeeded]
             /\ IF AlreadyAsked(network, fulfilled, pfrom)
                THEN /\ misbehaving' = MisbehavingScore
                     /\ syncOut' = <<>>
                     /\ UNCHANGED fulfilled
                ELSE /\ misbehaving' = 0
                     /\ fulfilled' = fulfilled \cup {pfrom}
                     /\ syncOut' = IF locked
                                   THEN SyncMessages(mapMasternodePayeeVotes, chainTip,
                                                     nCountNeeded)
                                   ELSE <<>>
    /\ askedMN' = "none"
    /\ addedSeen' = {}
    /\ relayed' = {}
    /\ erasedSeen' = {}
    /\ UNCHANGED <<mapMasternodePayeeVotes, mapMasternodeBlocks, mapMasternodesLastVote,
                   nLastBlockHeight, chainTip, mnodeman, pc, winner, outcome, fSynced>>
    /\ UNCHANGED <<txVars, guardVars, lockVars>>
    /\ UNCHANGED <<network, file, ssObj, wrPc, readResult>>

(***************************************************************************)
(* SpecSync: peers ask for the votes while the local node votes for        *)
(* heights around both ends of the range                                   *)
(***************************************************************************)
SyncTip == 2 * Tip0

\* the heights at tip - 4, tip - 3, tip + 20 and tip + 21
SyncHeights == {SyncTip - 4, SyncTip - 3, SyncTip + WindowAhead, SyncTip + WindowAhead + 1}

ProcessSyncBlock == ProcessBlockOn(SyncHeights)

InitSync ==
    /\ mapMasternodePayeeVotes = EmptyMap
    /\ mapMasternodeBlocks = EmptyMap
    /\ mapMasternodesLastVote = EmptyMap
    /\ nLastBlockHeight = 0
    /\ chainTip = SyncTip
    /\ mnodeman = Masternodes
    /\ pc = "idle"
    /\ winner = NoWinner
    /\ outcome = "none"
    /\ relayed = {}
    /\ erasedSeen = {}
    /\ fSynced = TRUE
    /\ misbehaving = 0
    /\ askedMN = "none"
    /\ addedSeen = {}
    /\ syncReq = [pfrom |-> "none", nCountNeeded |-> 0]
    /\ syncOut = <<>>
    /\ fulfilled = {}
    /\ network \in {"main", "test"}
    /\ file = NoFile
    /\ ssObj = <<>>
    /\ wrPc = "idle"
    /\ readResult = "none"
    /\ InitIdle

NextSync ==
    \/ ProcessSyncBlock
    \/ MnGet

SpecSync == InitSync /\ [][NextSync]_vars


(***************************************************************************)
(* CMasternodePayments::FillBlockPayee                                     *)
(***************************************************************************)
\* GetBlockValue(pindexPrev->nHeight)
BlockValue == 200

\* the transaction CreateNewBlock hands over: the coinbase output of a mined block,
\* or the empty output and the stake output of a staked one
BaseTx(fProofOfStake) ==
    IF fProofOfStake
    THEN <<[scriptPubKey |-> EmptyScript, nValue |-> 0],
           [scriptPubKey |-> Script("staker"), nValue |-> BlockValue]>>
    ELSE <<[scriptPubKey |-> Script("miner"), nValue |-> BlockValue]>>

\* mnodeman.GetCurrentMasternodeOnLevel(masternodePhase, 1): a known masternode of
\* the level, or NULL
FallbackChoices ==
    {pick \in [1..PhaseCount -> Masternodes \cup {"none"}] :
        \A phase \in 1..PhaseCount :
            pick[phase] # "none" => Find(pick[phase]) /\ Level(pick[phase]) = phase}

\* a loop that pays whatever the payee variable holds
HasPaymentAlways(found, pmn) == TRUE

\* lines 302-311: hasPayment after the lookup and the fallback
HasPayment(found, pmn) == found \/ pmn # "none"

\* lines 301-334: the loop over the tiers; payee is declared outside the loop and
\* keeps its value from one tier to the next
RECURSIVE FillLoop(_, _, _, _, _, _, _)
FillLoop(vout, blocks, h, phase, payee, pick, fl) ==
    IF phase > PhaseCount THEN vout
    ELSE LET found == h \in DOMAIN blocks /\ GetPayee(blocks[h].vecPayments, phase) > 0
             payee2 == IF found
                       THEN blocks[h].vecPayments[GetPayee(blocks[h].vecPayments,
                                                           phase)].scriptPubKey
                       ELSE IF pick[phase] # "none" THEN Script(pick[phase])
                       ELSE payee
             masternodePayment == GetMasternodePayment(h, phase)
             from == IF fl.fProofOfStake THEN 2 ELSE 1
             vout2 ==
                 IF HasPayment(found, pick[phase])
                 THEN Append(IF fl.fMint THEN vout
                             ELSE [vout EXCEPT ![from].nValue = @ - masternodePayment],
                             [scriptPubKey |-> payee2, nValue |-> masternodePayment])
                 ELSE IF ~fl.fProofOfStake
                      THEN [vout EXCEPT ![1].nValue = BlockValue - masternodePayment]
                      ELSE vout
         IN FillLoop(vout2, blocks, h, phase + 1, payee2, pick, fl)

\* lines 293-336; IsZerocoinMint() of the stake output is an input
FillBlockPayee ==
    /\ \E fProofOfStake \in BOOLEAN, fMint \in BOOLEAN, pick \in FallbackChoices :
        /\ fMint => fProofOfStake
        /\ txNew' = FillLoop(BaseTx(fProofOfStake), mapMasternodeBlocks, chainTip + 1, 1,
                             EmptyScript, pick,
                             [fProofOfStake |-> fProofOfStake, fMint |-> fMint])
        /\ winningNode' = pick
        /\ UNCHANGED ret
        /\ txHeight' = chainTip + 1
    /\ UNCHANGED txValid
    /\ UNCHANGED ledgerVars
    /\ UNCHANGED <<guardVars, lockVars, ioVars>>

(***************************************************************************)
(* SpecFill: votes are tallied for the next block and the block template   *)
(* is filled                                                               *)
(***************************************************************************)
InitFill ==
    /\ mapMasternodePayeeVotes = EmptyMap
    /\ mapMasternodeBlocks = EmptyMap
    /\ mapMasternodesLastVote = EmptyMap
    /\ nLastBlockHeight = 0
    /\ chainTip = TallyHeight - 1
    /\ mnodeman = Masternodes
    /\ pc = "idle"
    /\ winner = NoWinner
    /\ outcome = "none"
    /\ relayed = {}
    /\ erasedSeen = {}
    /\ fSynced = TRUE
    /\ misbehaving = 0
    /\ askedMN = "none"
    /\ addedSeen = {}
    /\ InitIo
    /\ InitIdle

NextFill ==
    \/ AcceptedVote
    \/ FillBlockPayee

SpecFill == InitFill /\ [][NextFill]_vars


(***************************************************************************)
(* The "mnw" handler run from its first to its last statement without      *)
(* another thread in between                                               *)
(***************************************************************************)
\* cpp lines 372-450 and 606-631 on the ledger st: the ledger afterwards and the
\* return taken
HandleMnw(st, w, nHeight) ==
    LET adm == Admission(w, st.votes, nHeight)
        voted == [st EXCEPT !.lastVote = CanVoteRecord(st.lastVote, w, GetPayeePhase(w))]
    IN IF adm # "none" THEN [st EXCEPT !.outcome = adm]
       ELSE IF ~CanVote(st.lastVote, w, GetPayeePhase(w))
       THEN [voted EXCEPT !.outcome = "AlreadyVoted"]
       ELSE IF ~SignatureValid(w) THEN [voted EXCEPT !.outcome = "BadSignature"]
       ELSE IF ~CanAddWinner(st.votes, w) THEN [voted EXCEPT !.outcome = "NotAdded"]
       ELSE [voted EXCEPT !.votes = InsertVote(st.votes, w),
                          !.blocks = TallyVote(EnsureBlock(st.blocks, w.nBlockHeight),
                                               w.nBlockHeight, GetPayeeScript(w),
                                               GetPayeePhase(w)),
                          !.outcome = "Accepted"]

\* the handler on one of the announcements; TRY_LOCK(cs_main) at lines 402-407
\* may fail once voter and payee are resolved
MnwOn(inputs) ==
    /\ pc = "idle"
    /\ \E m \in inputs, locked \in BOOLEAN :
        LET w == Decode(m)
            st == HandleMnw([votes |-> mapMasternodePayeeVotes,
                             blocks |-> mapMasternodeBlocks,
                             lastVote |-> mapMasternodesLastVote,
                             outcome |-> "none"], w, chainTip)
            dropped == ~locked /\ GetPhase(w) # 0 /\ GetPayeePhase(w) # 0
        IN /\ winner' = w
           /\ outcome' = IF dropped THEN "NoTipLock" ELSE st.outcome
           /\ mapMasternodePayeeVotes' = IF dropped THEN mapMasternodePayeeVotes ELSE st.votes
           /\ mapMasternodeBlocks' = IF dropped THEN mapMasternodeBlocks ELSE st.blocks
           /\ mapMasternodesLastVote' = IF dropped THEN mapMasternodesLastVote
                                        ELSE st.lastVote
    /\ relayed' = IF outcome' = "Accepted" THEN {GetHash(winner')} ELSE {}
    /\ addedSeen' = IF outcome' = "Accepted" THEN {GetHash(winner')}
                    ELSE MarkSeen(outcome', winner')
    /\ misbehaving' = IF outcome' \in {"NoVoterPhase", "BadSignature"}
                      THEN SyncedPenalty(fSynced) ELSE 0
    /\ askedMN' = IF outcome' \in {"NoVoterPhase", "BadSignature"} THEN winner'.vinMasternode
                  ELSE IF outcome' = "NoPayeePhase" THEN winner'.vinPayee
                  ELSE "none"
    /\ erasedSeen' = {}
    /\ UNCHANGED <<pc, fSynced, nLastBlockHeight, chainTip, mnodeman>>
    /\ UNCHANGED <<txVars, guardVars, lockVars, ioVars>>

(***************************************************************************)
(* SpecQuorum: six voters of the top 10 announce votes for two payees of   *)
(* tier 1; the votes for one height and payee arrive in the order of the   *)
(* voters.  A seventh voter has a collateral outpoint whose hash and index *)
(* add up to the same number as those of the first.                        *)
(***************************************************************************)
QuorumOrder == <<"q1", "q2", "q3", "q4", "q5", "q6">>
QuorumVoters == {QuorumOrder[i] : i \in DOMAIN QuorumOrder}
QuorumHeight == Tip0 + WindowAhead
OtherHeight == Tip0 - 2

\* what the voters announce: a payee for the height, a payee for another height,
\* another payee for the height
QuorumBallots == {<<QuorumHeight, "mn1">>, <<OtherHeight, "mn1">>, <<QuorumHeight, "mn2">>}

QuorumInputs ==
    {Mnw(QuorumOrder[i], b[1], b[2], "good") : i \in DOMAIN QuorumOrder, b \in QuorumBallots}
    \cup {Mnw("q7", QuorumHeight, "mn1", "good")}

\* the announcements the network delivers next
QuorumArrivals ==
    {m \in QuorumInputs :
        \A i, j \in DOMAIN QuorumOrder :
            (QuorumOrder[i] = m.vinMasternode /\ j < i) =>
                GetHash(Mnw(QuorumOrder[j], m.nBlockHeight, m.vinPayee, "good"))
                    \in DOMAIN mapMasternodePayeeVotes}

MnwQuorum == MnwOn(QuorumArrivals)

InitQuorum ==
    /\ mapMasternodePayeeVotes = EmptyMap
    /\ mapMasternodeBlocks = EmptyMap
    /\ mapMasternodesLastVote = EmptyMap
    /\ nLastBlockHeight = 0
    /\ chainTip = Tip0
    /\ mnodeman = Masternodes \cup QuorumVoters \cup {"q7"}
    /\ pc = "idle"
    /\ winner = NoWinner
    /\ outcome = "none"
    /\ relayed = {}
    /\ erasedSeen = {}
    /\ fSynced = TRUE
    /\ misbehaving = 0
    /\ askedMN = "none"
    /\ addedSeen = {}
    /\ InitIo
    /\ InitIdle

NextQuorum == MnwQuorum

SpecQuorum == InitQuorum /\ [][NextQuorum]_vars


(***************************************************************************)
(* SpecRestart: votes are announced, the ledger is written to disk, the     *)
(* node is started again and loads the file                                *)
(***************************************************************************)
\* votes of mn1 for one height, for either payee of tier 1
RestartInputs == {Mnw("mn1", QuorumHeight, p, "good") : p \in {"mn1", "mn2"}}

\* the handler runs between two writes of the file, not during one
MnwRestart ==
    /\ wrPc = "idle"
    /\ MnwOn(RestartInputs)

\* the node starts again: masternodePayments is constructed anew (header lines
\* 310-314); the maps, the guard map included, start empty
Restart ==
    /\ pc = "idle"
    /\ wrPc = "idle"
    /\ mapMasternodePayeeVotes' = EmptyMap
    /\ mapMasternodeBlocks' = EmptyMap
    /\ mapMasternodesLastVote' = EmptyMap
    /\ nLastBlockHeight' = 0
    /\ relayed' = {}
    /\ erasedSeen' = {}
    /\ UNCHANGED <<chainTip, mnodeman, pc, winner, outcome>>
    /\ UNCHANGED peerVars
    /\ UNCHANGED <<txVars, guardVars, lockVars, ioVars>>

InitRestart ==
    /\ mapMasternodePayeeVotes = EmptyMap
    /\ mapMasternodeBlocks = EmptyMap
    /\ mapMasternodesLastVote = EmptyMap
    /\ nLastBlockHeight = 0
    /\ chainTip = Tip0
    /\ mnodeman = Masternodes
    /\ pc = "idle"
    /\ winner = NoWinner
    /\ outcome = "none"
    /\ relayed = {}
    /\ erasedSeen = {}
    /\ fSynced = TRUE
    /\ misbehaving = 0
    /\ askedMN = "none"
    /\ addedSeen = {}
    /\ InitIo
    /\ InitIdle

NextRestart ==
    \/ MnwRestart
    \/ WriteVotes
    \/ WriteBlocks
    \/ Read
    \/ Restart

SpecRestart == InitRestart /\ [][NextRestart]_vars


(***************************************************************************)
(* DumpMasternodePayments                                                  *)
(***************************************************************************)
\* a dump that writes whatever the verification found
DumpProceedsAlways(result) == TRUE

\* cpp lines 161-171: the dump goes on to write when the file is missing, valid
\* or has a malformed payload, and returns otherwise
DumpProceeds(result) == result \in {"FileError", "Ok", "IncorrectFormat"}

\* cpp lines 151-173: the dry-run Read into tempPayments, then the start of
\* Write(masternodePayments); WriteBlocks completes the write
DumpMasternodePayments ==
    /\ wrPc = "idle"
    /\ readResult' = ReadChecks(file)
    /\ IF DumpProceeds(readResult')
       THEN /\ ssObj' = <<strMagicMessage, MessageStart(network),
                          SerializeVotes(mapMasternodePayeeVotes)>>
            /\ wrPc' = "blocks"
       ELSE UNCHANGED <<ssObj, wrPc>>
    /\ relayed' = {}
    /\ erasedSeen' = {}
    /\ UNCHANGED <<mapMasternodePayeeVotes, mapMasternodeBlocks, mapMasternodesLastVote,
                   nLastBlockHeight, chainTip, mnodeman, pc, winner, outcome>>
    /\ UNCHANGED peerVars
    /\ UNCHANGED <<txVars, guardVars, lockVars>>
    /\ UNCHANGED <<syncReq, syncOut, fulfilled, network, file>>

(***************************************************************************)
(* SpecDump: the ledger is dumped from time to time while the local node   *)
(* votes and the file gets damaged                                         *)
(***************************************************************************)
InitDump ==
    /\ mapMasternodePayeeVotes = EmptyMap
    /\ mapMasternodeBlocks = EmptyMap
    /\ mapMasternodesLastVote = EmptyMap
    /\ nLastBlockHeight = 0
    /\ chainTip = Tip0
    /\ mnodeman = Masternodes
    /\ pc = "idle"
    /\ winner = NoWinner
    /\ outcome = "none"
    /\ relayed = {}
    /\ erasedSeen = {}
    /\ fSynced = TRUE
    /\ misbehaving = 0
    /\ askedMN = "none"
    /\ addedSeen = {}
    /\ InitIo
    /\ InitIdle

NextDump ==
    \/ ProcessBlock
    \/ DumpMasternodePayments
    \/ WriteBlocks
    \/ DamageFile

SpecDump == InitDump /\ [][NextDump]_vars

(***************************************************************************)
(* CMasternodePayments::ProcessBlock with its early returns and the value  *)
(* it returns                                                              *)
(***************************************************************************)
\* budget.IsBudgetPaymentBlock(nBlockHeight): the heights of the budget's blocks
BudgetHeights == {Tip0 + WindowAhead}
IsBudgetPaymentBlock(h) == h \in BudgetHeights

\* a budget predicate without budget blocks
NeverBudget(h) == FALSE

\* cpp line 841
ProcessBlockBudget(h) == IsBudgetPaymentBlock(h)

LocalHeights == {Tip0 - 3, Tip0 + 5, Tip0 + WindowAhead, Tip0 + WindowAhead + 1}

\* cpp lines 821-891; fMasterNode and the result of obfuScationSigner.SetKey are
\* inputs
ProcessBlockReturn ==
    \E h \in LocalHeights, fMasterNode \in BOOLEAN, fSetKey \in BOOLEAN,
       pick \in QueueChoices :
        LET call == [fn |-> "ProcessBlock", height |-> h]
            refused == \/ ~fMasterNode
                       \/ ~Find(activeMasternode)
                       \/ Rank(activeMasternode) > MNPAYMENTS_SIGNATURES_TOTAL
                       \/ h <= nLastBlockHeight
            st == ProcessBlockLoop([votes |-> mapMasternodePayeeVotes,
                                    blocks |-> mapMasternodeBlocks,
                                    relayed |-> {},
                                    last |-> nLastBlockHeight,
                                    added |-> FALSE], h, 1, pick)
        IN /\ IF refused \/ ProcessBlockBudget(h) \/ ~fSetKey
              THEN /\ ret' = [fn |-> "ProcessBlock", height |-> h,
                              value |-> ~refused /\ ProcessBlockBudget(h)]
                   /\ relayed' = {}
                   /\ UNCHANGED <<mapMasternodePayeeVotes, mapMasternodeBlocks,
                                  nLastBlockHeight>>
              ELSE /\ mapMasternodePayeeVotes' = st.votes
                   /\ mapMasternodeBlocks' = st.blocks
                   /\ relayed' = st.relayed
                   /\ nLastBlockHeight' = st.last
                   /\ ret' = [fn |-> "ProcessBlock", height |-> h,
                              value |-> st.last = h]
           /\ erasedSeen' = {}
           /\ UNCHANGED <<mapMasternodesLastVote, chainTip, mnodeman, pc, winner, outcome>>
           /\ UNCHANGED <<txNew, txHeight, txValid, winningNode>>
           /\ UNCHANGED <<guardVars, lockVars, ioVars>>
           /\ UNCHANGED peerVars

(***************************************************************************)
(* SpecLocal: the local node is asked to vote for heights in any order     *)
(* while blocks connect and old votes are cleaned                          *)
(***************************************************************************)
NextLocal ==
    \/ ProcessBlockReturn
    \/ ConnectBlocks
    \/ CleanPaymentList

SpecLocal == InitDump /\ [][NextLocal]_vars

(***************************************************************************)
(* IsBlockPayeeValid                                                       *)
(***************************************************************************)
\* what the budget branch (cpp lines 239-254) finds: "none" when superblocks are
\* off or the height is no budget height, else budget.IsTransactionValid's status,
\* an invalid one split by SPORK_9_MASTERNODE_BUDGET_ENFORCEMENT
BudgetStatus == {"none", "Valid", "InValidEnforced", "InValid", "DoublePayment"}

\* a check that rejects an unpaid block whatever the enforcement spork says
BlockPayeeValidStrict(blocks, tx, h, synced, budget, enforced) ==
    IF ~synced THEN TRUE
    ELSE IF budget = "Valid" THEN TRUE
    ELSE IF budget = "InValidEnforced" THEN FALSE
    ELSE IsTransactionValid(blocks, tx, h)

\* cpp lines 227-271: the value IsBlockPayeeValid returns; synced is
\* masternodeSync.IsSynced(), enforced is
\* IsSporkActive(SPORK_8_MASTERNODE_PAYMENT_ENFORCEMENT)
BlockPayeeValid(blocks, tx, h, synced, budget, enforced) ==
    IF ~synced THEN TRUE
    ELSE IF budget = "Valid" THEN TRUE
    ELSE IF budget = "InValidEnforced" THEN FALSE
    ELSE IF IsTransactionValid(blocks, tx, h) THEN TRUE
    ELSE IF enforced THEN FALSE
    ELSE TRUE

\* the payment transactions of the blocks checked: no output, or one that pays a
\* masternode the amount of its level
BlockTxs ==
    {NoTx} \cup {<<[scriptPubKey |-> Script(mn),
                    nValue |-> GetMasternodePayment(TallyHeight, Level(mn))]>> :
                    mn \in Masternodes}

IsBlockPayeeValid ==
    /\ \E tx \in BlockTxs, synced \in BOOLEAN, enforced \in BOOLEAN,
          budget \in BudgetStatus :
        /\ budget # "none" => IsBudgetPaymentBlock(TallyHeight)
        /\ txNew' = tx
        /\ txHeight' = TallyHeight
        /\ ret' = [fn |-> "IsBlockPayeeValid", synced |-> synced, budget |-> budget,
                   enforced |-> enforced,
                   value |-> BlockPayeeValid(mapMasternodeBlocks, tx, TallyHeight,
                                             synced, budget, enforced)]
    /\ UNCHANGED <<txValid, winningNode>>
    /\ UNCHANGED ledgerVars
    /\ UNCHANGED <<guardVars, lockVars, ioVars>>

(***************************************************************************)
(* SpecPayee: blocks are checked while votes for their height are tallied  *)
(***************************************************************************)
NextPayee ==
    \/ AcceptedVote
    \/ IsBlockPayeeValid

SpecPayee == InitTally /\ [][NextPayee]_vars

(***************************************************************************)
(* Vocabulary of the properties                                            *)
(***************************************************************************)
Scripts == {Script(m) : m \in Masternodes}
Levels == 0..PhaseCount

\* the stored votes of height h that resolve to (script, level)
StoredVotes(votes, h, script, level) ==
    Cardinality({k \in DOMAIN votes : /\ votes[k].nBlockHeight = h
                                      /\ GetPayeeScript(votes[k]) = script
                                      /\ GetPayeePhase(votes[k]) = level})

LedgerHeights ==
    DOMAIN mapMasternodeBlocks
        \cup {mapMasternodePayeeVotes[k].nBlockHeight : k \in DOMAIN mapMasternodePayeeVotes}

\* voter and payee of the announcement are known to the roster
Resolved(w) == GetPhase(w) # 0 /\ GetPayeePhase(w) # 0

\* a step in which the handler decodes an announcement and runs its unlocked checks
HandlerChecked ==
    /\ pc = "idle"
    /\ <<pc, winner, outcome>>' # <<pc, winner, outcome>>
    /\ outcome' # "NoTipLock"

\* a step in which the handler leaves the CanVote / SignatureValid / insert stretch
HandlerVoted == pc = "canvote" /\ pc' # "canvote"

\* a step of ProcessBlock that stored or tallied something
ProcessBlockStep ==
    /\ pc' = pc
    /\ chainTip' = chainTip
    /\ DOMAIN mapMasternodePayeeVotes \subseteq DOMAIN mapMasternodePayeeVotes'
    /\ <<mapMasternodePayeeVotes, mapMasternodeBlocks>>'
           # <<mapMasternodePayeeVotes, mapMasternodeBlocks>>

\* a step in which a candidate transaction is validated
Validated == txVars' # txVars

\* some payee of the level holds the required number of votes
Constrained(vec, level) ==
    \E i \in DOMAIN vec : /\ vec[i].masternodeLevel = level
                          /\ vec[i].nVotes >= MNPAYMENTS_SIGNATURES_REQUIRED

\* the highest count among the payees of the level, 0 without payees
HighestCount(vec, level) ==
    LET counts == {vec[i].nVotes : i \in {j \in DOMAIN vec : vec[j].masternodeLevel = level}}
    IN IF counts = {} THEN 0 ELSE CHOOSE n \in counts : \A m \in counts : m <= n

\* the leading payee of the level: highest count, first inserted on ties
Leader(vec, level) ==
    LET own == {j \in DOMAIN vec : vec[j].masternodeLevel = level}
    IN CHOOSE i \in own : \A j \in own : \/ vec[j].nVotes < vec[i].nVotes
                                         \/ (vec[j].nVotes = vec[i].nVotes /\ i <= j)

\* the transaction holds an output to script of at least amount
PaysScript(vout, script, amount) ==
    \E o \in DOMAIN vout : vout[o].scriptPubKey = script /\ vout[o].nValue >= amount

PaysLeading(vec, vout, level, h) ==
    PaysScript(vout, vec[Leader(vec, level)].scriptPubKey, GetMasternodePayment(h, level))

\* the transaction pays a payee of the level that holds the required votes
PaysQualified(vec, vout, level, h) ==
    \E i \in DOMAIN vec : /\ vec[i].masternodeLevel = level
                          /\ vec[i].nVotes >= MNPAYMENTS_SIGNATURES_REQUIRED
                          /\ PaysScript(vout, vec[i].scriptPubKey,
                                        GetMasternodePayment(h, level))

OnlyConstrained(vec, level) ==
    /\ Constrained(vec, level)
    /\ \A l \in (1..PhaseCount) \ {level} : ~Constrained(vec, l)

\* the stored answer is the answer for the tally as it is now
AnswerCurrent ==
    /\ txNew \in TxInputs
    /\ txValid = IsTransactionValid(mapMasternodeBlocks, txNew, txHeight)

\* floor(1.25 * c)
Floor125(c) == CHOOSE n \in 0..(2 * c) : 4 * n <= 5 * c /\ 5 * c < 4 * (n + 1)

(***************************************************************************)
(* Properties                                                              *)
(***************************************************************************)

\* C1: the ledger never holds two votes of the same voter for the same
\* (tier, height), whatever payees they name and whatever the voter did in between.
C1_OneVotePerVoterTierHeight ==
    \A k1, k2 \in DOMAIN mapMasternodePayeeVotes :
        LET v1 == mapMasternodePayeeVotes[k1]
            v2 == mapMasternodePayeeVotes[k2]
        IN (/\ v1.vinMasternode = v2.vinMasternode
            /\ v1.nBlockHeight = v2.nBlockHeight
            /\ Level(v1.vinPayee) = Level(v2.vinPayee)) => k1 = k2

\* C2: in every state, for every height and (payee, tier), the tally count equals
\* the number of stored votes of that height resolving to that payee and tier.
C2_TallyMatchesVotes ==
    \A h \in LedgerHeights, script \in Scripts, level \in Levels :
        TallyCount(mapMasternodeBlocks, h, script, level)
            = StoredVotes(mapMasternodePayeeVotes, h, script, level)

C4_Unconstrained ==
    [][Validated =>
          /\ (txHeight' \notin DOMAIN mapMasternodeBlocks => txValid')
          /\ (txHeight' \in DOMAIN mapMasternodeBlocks =>
                LET vec == mapMasternodeBlocks[txHeight'].vecPayments
                    free(l) == HighestCount(vec, l) < MNPAYMENTS_SIGNATURES_REQUIRED
                IN /\ (\A l \in 1..PhaseCount : free(l)) => txValid'
                   /\ \A l \in 1..PhaseCount :
                         free(l) =>
                            (txValid' <=> \A l2 \in (1..PhaseCount) \ {l} :
                                 free(l2) \/ PaysQualified(vec, txNew', l2, txHeight'))
                   /\ \A l \in 1..PhaseCount :
                         (~free(l) /\ txNew' = <<>>) => ~txValid')]_vars

\* a transaction without outputs validated against a tally whose best payee has 5 votes
C4_Witness ==
    /\ AnswerCurrent
    /\ txHeight \in DOMAIN mapMasternodeBlocks
    /\ HighestCount(mapMasternodeBlocks[txHeight].vecPayments, 1)
           = MNPAYMENTS_SIGNATURES_REQUIRED - 1
    /\ txNew = <<>>
    /\ txValid

\* C5: the result is the conjunction over the tiers: true exactly when every
\* constrained tier is paid, false as soon as one constrained tier is not.
C5_AndAcrossTiers ==
    [][(Validated /\ txHeight' \in DOMAIN mapMasternodeBlocks) =>
          LET vec == mapMasternodeBlocks[txHeight'].vecPayments
          IN txValid' <=> \A l \in 1..PhaseCount :
                             \/ ~Constrained(vec, l)
                             \/ PaysQualified(vec, txNew', l, txHeight')]_vars

\* both tiers constrained, tier 1 paid to its leader, tier 2 unpaid: rejected
C5_Witness ==
    /\ AnswerCurrent
    /\ txHeight \in DOMAIN mapMasternodeBlocks
    /\ LET vec == mapMasternodeBlocks[txHeight].vecPayments
       IN /\ Constrained(vec, 1)
          /\ Constrained(vec, 2)
          /\ PaysLeading(vec, txNew, 1, txHeight)
          /\ ~PaysQualified(vec, txNew, 2, txHeight)
          /\ ~txValid

\* C6: CanVote returns false and records nothing iff the height recorded for the
\* (voter, tier) key is the given height, otherwise it records the height and
\* returns true; between its lookup and its record no other call changes the map.
C6_CanVoteAtomic ==
    /\ [](\A t \in Callers :
            cvPc[t] = "record" =>
               LET key == CanVoteKey(cvArg[t].w, cvArg[t].voteForPhase)
               IN ~(/\ key \in DOMAIN mapMasternodesLastVote
                    /\ mapMasternodesLastVote[key] = cvArg[t].w.nBlockHeight))
    /\ [][\A t \in Callers :
            LET key == CanVoteKey(cvArg[t].w, cvArg[t].voteForPhase)
                h == cvArg[t].w.nBlockHeight
                recorded == /\ key \in DOMAIN mapMasternodesLastVote
                            /\ mapMasternodesLastVote[key] = h
            IN /\ (cvPc[t] = "check" /\ cvPc'[t] # "check") =>
                     IF recorded
                     THEN /\ cvPc'[t] = "unlock"
                          /\ cvRet'[t] = FALSE
                          /\ mapMasternodesLastVote' = mapMasternodesLastVote
                     ELSE cvPc'[t] = "record"
               /\ (cvPc[t] = "record" /\ cvPc'[t] # "record") =>
                     /\ cvRet'[t] = TRUE
                     /\ key \in DOMAIN mapMasternodesLastVote'
                     /\ mapMasternodesLastVote'[key] = h
                     /\ \A k \in DOMAIN mapMasternodesLastVote' \ {key} :
                           /\ k \in DOMAIN mapMasternodesLastVote
                           /\ mapMasternodesLastVote'[k] = mapMasternodesLastVote[k]]_vars

\* one caller was refused for a height already recorded while the other waits
\* for the critical section
C6_Witness ==
    \E t \in Callers, u \in Callers :
        /\ t # u
        /\ cvPc[t] = "unlock"
        /\ cvRet[t] = FALSE
        /\ cvPc[u] = "lock"
        /\ cvArg[u] = cvArg[t]

\* C7: a vote that is already stored has no second effect: the handler returns
\* on the duplicate check, or, when the vote was stored while the handler was
\* between its checks, AddWinningMasternode refuses it; ProcessBlock changes a
\* tally only by the votes it newly stores; nothing is relayed for a refused vote.
C7_Idempotent ==
    [][/\ (HandlerChecked /\ Resolved(winner')
             /\ GetHash(winner') \in DOMAIN mapMasternodePayeeVotes) =>
             /\ outcome' = "Duplicate"
             /\ pc' = "idle"
             /\ relayed' = {}
             /\ UNCHANGED <<mapMasternodePayeeVotes, mapMasternodeBlocks,
                            mapMasternodesLastVote>>
       /\ (HandlerVoted /\ GetHash(winner) \in DOMAIN mapMasternodePayeeVotes) =>
             /\ pc' = "idle"
             /\ outcome' # "Accepted"
             /\ relayed' = {}
             /\ UNCHANGED <<mapMasternodePayeeVotes, mapMasternodeBlocks>>
       /\ ProcessBlockStep =>
             /\ relayed' = DOMAIN mapMasternodePayeeVotes' \ DOMAIN mapMasternodePayeeVotes
             /\ \A k \in DOMAIN mapMasternodePayeeVotes :
                   mapMasternodePayeeVotes'[k] = mapMasternodePayeeVotes[k]
             /\ \A h \in LedgerHeights', script \in Scripts, level \in Levels :
                   TallyCount(mapMasternodeBlocks', h, script, level)
                     = TallyCount(mapMasternodeBlocks, h, script, level)
                       + StoredVotes(mapMasternodePayeeVotes', h, script, level)
                       - StoredVotes(mapMasternodePayeeVotes, h, script, level)]_vars

\* the stored vote was announced again and refused as a duplicate, its payee
\* still counted once
C7_Witness ==
    /\ pc = "idle"
    /\ outcome = "Duplicate"
    /\ GetHash(winner) \in DOMAIN mapMasternodePayeeVotes
    /\ TallyCount(mapMasternodeBlocks, winner.nBlockHeight, GetPayeeScript(winner),
                  GetPayeePhase(winner)) = 1

\* C8: an announcement that resolves and is not a duplicate is refused as out of
\* window iff its height is below tip - floor(1.25 * count of the payee's tier)
\* or above tip + 20.
C8_Window ==
    [][(HandlerChecked /\ Resolved(winner')
          /\ GetHash(winner') \notin DOMAIN mapMasternodePayeeVotes) =>
          (outcome' = "OutOfWindow" <=>
              \/ winner'.nBlockHeight
                   < chainTip - Floor125(CountEnabledOnLevel(GetPayeePhase(winner')))
              \/ winner'.nBlockHeight > chainTip + WindowAhead)]_vars

\* a vote at exactly tip - floor(1.25 * count), where the ceiling would differ,
\* was accepted
C8_Witness ==
    /\ outcome = "Accepted"
    /\ winner.nBlockHeight
         = chainTip - Floor125(CountEnabledOnLevel(GetPayeePhase(winner)))
    /\ (CountEnabledOnLevel(GetPayeePhase(winner)) * 5) % 4 # 0
    /\ GetHash(winner) \in DOMAIN mapMasternodePayeeVotes

\* C9 as stated: a vote that resolves, is no duplicate, lies in the window, may
\* vote and carries a valid signature goes on to be inserted.
C9_FiveChecksSuffice ==
    [][/\ (HandlerChecked /\ Resolved(winner')
             /\ GetHash(winner') \notin DOMAIN mapMasternodePayeeVotes
             /\ ~OutOfRange(winner', chainTip)
             /\ CanVote(mapMasternodesLastVote, winner', GetPayeePhase(winner'))
             /\ SignatureValid(winner')) => pc' = "canvote"
       /\ (HandlerVoted
             /\ CanVote(mapMasternodesLastVote, winner, GetPayeePhase(winner))
             /\ SignatureValid(winner)) =>
             /\ pc' = "addpayee"
             /\ GetHash(winner) \in DOMAIN mapMasternodePayeeVotes']_vars

\* C9 amended: a vote that also passed IsValid, whose block hash 100 blocks back
\* is known and that was not stored in the meantime, is inserted and its height
\* gets a tally; the tally update then adds one to its (payee, tier), the vote is
\* relayed, and when it is the first of its tier at the height the leading payee
\* is its payee with count 1.
C9_AcceptedVote ==
    [][/\ (HandlerVoted
             /\ CanVote(mapMasternodesLastVote, winner, GetPayeePhase(winner))
             /\ SignatureValid(winner)
             /\ GetBlockHash(winner.nBlockHeight - HashLookBack)
             /\ GetHash(winner) \notin DOMAIN mapMasternodePayeeVotes) =>
             /\ pc' = "addpayee"
             /\ GetHash(winner) \in DOMAIN mapMasternodePayeeVotes'
             /\ mapMasternodePayeeVotes'[GetHash(winner)] = winner
             /\ winner.nBlockHeight \in DOMAIN mapMasternodeBlocks'
       /\ (pc = "addpayee" /\ pc' # "addpayee") =>
             LET h == winner.nBlockHeight
                 script == GetPayeeScript(winner)
                 level == GetPayeePhase(winner)
             IN /\ outcome' = "Accepted"
                /\ relayed' = {GetHash(winner)}
                /\ TallyCount(mapMasternodeBlocks', h, script, level)
                     = TallyCount(mapMasternodeBlocks, h, script, level) + 1
                /\ GetBlockPayeeVotes(mapMasternodeBlocks, h, level) = -1 =>
                      /\ GetBlockPayee(mapMasternodeBlocks', h, level) = script
                      /\ GetBlockPayeeVotes(mapMasternodeBlocks', h, level) = 1]_vars

\* an accepted vote, stored, its payee leading its tier with count 1
C9_Witness ==
    /\ pc = "idle"
    /\ outcome = "Accepted"
    /\ GetHash(winner) \in DOMAIN mapMasternodePayeeVotes
    /\ GetBlockPayee(mapMasternodeBlocks, winner.nBlockHeight, GetPayeePhase(winner))
         = GetPayeeScript(winner)
    /\ GetBlockPayeeVotes(mapMasternodeBlocks, winner.nBlockHeight,
                          GetPayeePhase(winner)) = 1

\* C10: the checks run in the order resolve, duplicate, window, CanVote,
\* SignatureValid; a vote refused as duplicate or out of window leaves the guard
\* map, the votes and the tallies alone and its signature is never verified.
C10_CheckOrder ==
    [][/\ HandlerChecked =>
             LET w == winner'
                 dup == GetHash(w) \in DOMAIN mapMasternodePayeeVotes
             IN /\ outcome' = "Duplicate" <=> (Resolved(w) /\ dup)
                /\ outcome' = "OutOfWindow" <=>
                      (Resolved(w) /\ ~dup /\ OutOfRange(w, chainTip))
                /\ pc' = "canvote" => (Resolved(w) /\ ~dup /\ ~OutOfRange(w, chainTip))
                /\ outcome' \notin {"AlreadyVoted", "BadSignature", "NotAdded", "Accepted"}
                /\ UNCHANGED <<mapMasternodePayeeVotes, mapMasternodeBlocks,
                               mapMasternodesLastVote>>
       /\ HandlerVoted =>
             LET may == CanVote(mapMasternodesLastVote, winner, GetPayeePhase(winner))
             IN /\ outcome' = "AlreadyVoted" <=> ~may
                /\ outcome' = "BadSignature" <=> (may /\ ~SignatureValid(winner))
                /\ may => mapMasternodesLastVote'
                            = RecordVote(mapMasternodesLastVote,
                                         CanVoteKey(winner, GetPayeePhase(winner)),
                                         winner.nBlockHeight)
       /\ (outcome' \in {"AlreadyVoted", "BadSignature"} /\ outcome' # outcome) =>
             pc = "canvote"]_vars

\* a vote with a forged signature refused as out of window, nothing recorded for
\* its voter
C10_Witness ==
    /\ pc = "idle"
    /\ outcome = "OutOfWindow"
    /\ winner.vchSig = BadSig
    /\ CanVoteKey(winner, GetPayeePhase(winner)) \notin DOMAIN mapMasternodesLastVote

C12_ReportOnlyBadSignature ==
    [][/\ (HandlerVoted /\ outcome' = "BadSignature") => (misbehaving' > 0 <=> fSynced)
       /\ (HandlerVoted /\ outcome' = "AlreadyVoted") => misbehaving' = 0
       /\ (HandlerChecked /\ outcome' \in {"Duplicate", "OutOfWindow"}) =>
             misbehaving' = 0]_vars

\* a forged vote reached an unsynced node: refused without a report
C12_Witness ==
    /\ pc = "idle"
    /\ outcome = "BadSignature"
    /\ ~fSynced
    /\ misbehaving = 0
    /\ winner.vchSig = BadSig

\* C13: an announcement whose voter or payee the roster does not know is not
\* added, the missing masternode is asked from the peer, and the peer is not
\* reported.
C13_IncompleteNotPunished ==
    [][(HandlerChecked /\ ~Resolved(winner')) =>
          /\ pc' = "idle"
          /\ UNCHANGED <<mapMasternodePayeeVotes, mapMasternodeBlocks,
                         mapMasternodesLastVote>>
          /\ askedMN' = IF GetPhase(winner') = 0 THEN winner'.vinMasternode
                        ELSE winner'.vinPayee
          /\ misbehaving' = 0]_vars

\* C14: no tally holds an entry of tier 0 or with an unresolved payee.
C14_NoUnresolvedEntry ==
    \A h \in DOMAIN mapMasternodeBlocks :
        \A i \in DOMAIN mapMasternodeBlocks[h].vecPayments :
            /\ mapMasternodeBlocks[h].vecPayments[i].masternodeLevel # 0
            /\ mapMasternodeBlocks[h].vecPayments[i].scriptPubKey # EmptyScript

\* C15: GetBlockPayee returns the entry of the tier with the highest count, the
\* earliest inserted among equals, never an entry of another tier, and nothing
\* when the height has no tally or the tally has no entry of the tier.
C15_LeadingPayee ==
    \A h \in {TallyHeight, TallyHeight + 1}, level \in Levels :
        LET vec == IF h \in DOMAIN mapMasternodeBlocks
                   THEN mapMasternodeBlocks[h].vecPayments ELSE <<>>
            own == {j \in DOMAIN vec : vec[j].masternodeLevel = level}
            i == GetPayee(vec, level)
        IN IF own = {}
           THEN /\ GetBlockPayee(mapMasternodeBlocks, h, level) = EmptyScript
                /\ GetBlockPayeeVotes(mapMasternodeBlocks, h, level) = -1
           ELSE /\ i \in own
                /\ \A j \in own : /\ vec[j].nVotes <= vec[i].nVotes
                                  /\ vec[j].nVotes = vec[i].nVotes => i <= j
                /\ GetBlockPayee(mapMasternodeBlocks, h, level) = vec[i].scriptPubKey
                /\ GetBlockPayeeVotes(mapMasternodeBlocks, h, level) = vec[i].nVotes

\* two payees of tier 1 tie below the count of a tier-2 payee inserted first; the
\* leader of tier 1 is the earlier of the two
C15_Witness ==
    /\ TallyHeight \in DOMAIN mapMasternodeBlocks
    /\ LET vec == mapMasternodeBlocks[TallyHeight].vecPayments
       IN /\ Len(vec) = 3
          /\ vec[1].masternodeLevel = 2
          /\ vec[2].masternodeLevel = 1
          /\ vec[3].masternodeLevel = 1
          /\ vec[2].nVotes = vec[3].nVotes
          /\ vec[1].nVotes > vec[2].nVotes
          /\ GetBlockPayee(mapMasternodeBlocks, TallyHeight, 1) = vec[2].scriptPubKey

\* a step in which CleanPaymentList erased something
CleanStep == erasedSeen' # {}

\* the stored votes of height h
VotesAt(votes, h) == {k \in DOMAIN votes : votes[k].nBlockHeight = h}

\* C16: a cleanup at the tip removes exactly the votes more than
\* max(1.25 * roster size, 1000) blocks below the tip and leaves every other vote
\* as it was; with fewer than 800 masternodes these are the votes more than 1000
\* blocks below the tip.
C16_Retention ==
    [][CleanStep =>
         \A k \in DOMAIN mapMasternodePayeeVotes :
            LET age == chainTip - mapMasternodePayeeVotes[k].nBlockHeight
                older == /\ 4 * age > 5 * Cardinality(mnodeman)
                         /\ age > MinRetention
            IN /\ older <=> k \notin DOMAIN mapMasternodePayeeVotes'
               /\ ~older => /\ k \in DOMAIN mapMasternodePayeeVotes'
                            /\ mapMasternodePayeeVotes'[k] = mapMasternodePayeeVotes[k]
               /\ Cardinality(mnodeman) < 800 =>
                     (k \notin DOMAIN mapMasternodePayeeVotes' <=> age > MinRetention)]_vars

\* with 803 masternodes a cleanup erased the vote 1004 blocks below the tip and kept
\* the one 1003 blocks below it
C16_Witness ==
    /\ Cardinality(mnodeman) = 803
    /\ \E k \in erasedSeen : chainTip - k[2] = 1004
    /\ VotesAt(mapMasternodePayeeVotes, chainTip - 1004) = {}
    /\ VotesAt(mapMasternodePayeeVotes, chainTip - 1003) # {}

\* C17 as stated: at tip 2000 with 100 masternodes a cleanup removes every vote at
\* height 1875 or below and keeps the votes at height 1876.
C17_Removes1875 ==
    [][(CleanStep /\ chainTip = 2000 /\ Cardinality(mnodeman) = 100) =>
         \A k \in DOMAIN mapMasternodePayeeVotes :
            /\ mapMasternodePayeeVotes[k].nBlockHeight <= 1875
                  => k \notin DOMAIN mapMasternodePayeeVotes'
            /\ mapMasternodePayeeVotes[k].nBlockHeight = 1876
                  => k \in DOMAIN mapMasternodePayeeVotes']_vars

\* C17: at tip 2000 with 100 masternodes the retention is 1000 blocks: a cleanup
\* removes every vote at height 999 or below and keeps the votes at heights 1000
\* and above, those at 1875 and 1876 among them.
C17_Removes999 ==
    [][(CleanStep /\ chainTip = 2000 /\ Cardinality(mnodeman) = 100) =>
         \A k \in DOMAIN mapMasternodePayeeVotes :
            /\ mapMasternodePayeeVotes[k].nBlockHeight <= 999
                  => k \notin DOMAIN mapMasternodePayeeVotes'
            /\ mapMasternodePayeeVotes[k].nBlockHeight >= 1000
                  => /\ k \in DOMAIN mapMasternodePayeeVotes'
                     /\ mapMasternodePayeeVotes'[k] = mapMasternodePayeeVotes[k]]_vars

\* at tip 2000 with 100 masternodes a cleanup erased a vote at height 999 and the
\* votes at heights 1000, 1875 and 1876 are still stored
C17_Witness ==
    /\ chainTip = 2000
    /\ Cardinality(mnodeman) = 100
    /\ \E k \in erasedSeen : k[2] = 999
    /\ VotesAt(mapMasternodePayeeVotes, 1000) # {}
    /\ VotesAt(mapMasternodePayeeVotes, 1875) # {}
    /\ VotesAt(mapMasternodePayeeVotes, 1876) # {}

\* C18: after a cleanup a height has a tally exactly when a vote of that height is
\* still stored.
C18_TallyIffVote ==
    [][CleanStep =>
         \A h \in LedgerHeights' :
            h \in DOMAIN mapMasternodeBlocks' <=> VotesAt(mapMasternodePayeeVotes', h) # {}]_vars

\* the critical section thread t is trying to enter, "none" when it is not entering one
Wanted(t) ==
    IF t \notin DOMAIN opPc THEN "none"
    ELSE IF opPc[t] = "lockvotes" THEN "votes"
    ELSE IF opPc[t] = "lockblocks" THEN "blocks"
    ELSE "none"

\* the thread inside the critical section of the vote index or of the tally index
Holder(section) == IF section = "votes" THEN cs ELSE csBlocks

\* C19: no two operations block each other: no thread waits for the critical
\* section of one index that is held by a thread waiting for the critical section
\* of the other index, which the thread holds.
C19_NoDeadlock ==
    \A t1, t2 \in DOMAIN opPc :
        ~ /\ t1 # t2
          /\ Wanted(t1) # "none"
          /\ Wanted(t2) # "none"
          /\ Holder(Wanted(t1)) = t2
          /\ Holder(Wanted(t2)) = t1

\* C20: a step that reads or writes the vote index is taken by the thread inside
\* cs_mapMasternodePayeeVotes, and a step that reads or writes the tally index or a
\* tally by the thread inside cs_mapMasternodeBlocks.
C20_AccessUnderLock ==
    \A t \in DOMAIN touched :
        /\ "votes" \in touched[t] => cs = t
        /\ "blocks" \in touched[t] => csBlocks = t

\* a step in which Write put a file on the disk
WriteStep == wrPc = "blocks" /\ wrPc' = "idle" /\ file' # file

\* the heights of the votes, and of the tallies, a complete file holds
FileVoteHeights(f) == {p[2][2] : p \in f.data[3]}
FileBlockHeights(f) == {p[1] : p \in f.data[4]}

\* C21: a written snapshot holds the ledger of one instant: as in the ledger, which
\* inserts a vote together with its height's tally and erases them together, every
\* vote in the file has the tally of its height in the file.
C21_SnapshotOneInstant ==
    [][WriteStep => FileVoteHeights(file') \subseteq FileBlockHeights(file')]_vars

\* a step in which the handler returned
HandlerReturned == pc' = "idle" /\ <<pc, winner, outcome>>' # <<pc, winner, outcome>>

\* C22: the handler relays a vote and marks it as seen when AddWinningMasternode has
\* stored it, both with the vote's hash; a return on any check other than the
\* duplicate check relays nothing and marks nothing, and the return on the duplicate
\* check relays nothing.
C22_RelayAfterAdd ==
    [][HandlerReturned =>
         /\ outcome' = "Accepted" =>
               /\ pc = "addpayee"
               /\ GetHash(winner') \in DOMAIN mapMasternodePayeeVotes'
               /\ relayed' = {GetHash(winner')}
               /\ addedSeen' = {GetHash(winner')}
         /\ outcome' = "Duplicate" => relayed' = {}
         /\ outcome' \notin {"Accepted", "Duplicate"} =>
               /\ relayed' = {}
               /\ addedSeen' = {}]_vars

\* a second vote was stored, relayed and marked as seen
C22_Witness ==
    /\ pc = "idle"
    /\ outcome = "Accepted"
    /\ relayed = {GetHash(winner)}
    /\ addedSeen = {GetHash(winner)}
    /\ GetHash(winner) \in DOMAIN mapMasternodePayeeVotes
    /\ Cardinality(DOMAIN mapMasternodePayeeVotes) = 2

SyncStep == <<syncReq, syncOut, fulfilled, misbehaving>>' # <<syncReq, syncOut, fulfilled, misbehaving>>
SyncAnswered == SyncStep /\ syncOut' # <<>>
InvPositions(out) == {i \in 1..Len(out) : out[i].type = "inv"}
Announced(out) == {out[i].hash : i \in InvPositions(out)}
Ceil125(c) == CHOOSE n \in 0..(2 * c) : 4 * (n - 1) < 5 * c /\ 5 * c <= 4 * n
MinOf(a, b) == IF a < b THEN a ELSE b
InRange(votes, tip, n) ==
    {k \in DOMAIN votes : /\ votes[k].nBlockHeight >= tip - n
                          /\ votes[k].nBlockHeight <= tip + WindowAhead}

\* C23 as stated: an answered request announces, each once, exactly the ledger votes
\* whose height lies between the tip minus min(requested, ceiling of 1.25 times the
\* enabled roster size) and the tip plus 20
C23_WindowCeil ==
    [][SyncAnswered =>
         LET clamped == MinOf(syncReq'.nCountNeeded, Ceil125(CountEnabled))
         IN /\ Announced(syncOut') = InRange(mapMasternodePayeeVotes, chainTip, clamped)
            /\ Cardinality(InvPositions(syncOut')) = Cardinality(Announced(syncOut'))]_vars

\* C23 amended: an answered request announces, each once, exactly the ledger votes
\* whose height lies between the tip minus min(requested, 1.25 times the enabled
\* roster size rounded down) and the tip plus 20
C23_WindowFloor ==
    [][SyncAnswered =>
         LET clamped == MinOf(syncReq'.nCountNeeded, Floor125(CountEnabled))
         IN /\ Announced(syncOut') = InRange(mapMasternodePayeeVotes, chainTip, clamped)
            /\ Cardinality(InvPositions(syncOut')) = Cardinality(Announced(syncOut'))]_vars

\* a request for 4 blocks with 3 masternodes enabled: the vote 3 blocks below the tip
\* and the one 20 blocks ahead are announced, the ones 4 below and 21 ahead are not
C23_Witness ==
    /\ syncReq.nCountNeeded = 4
    /\ CountEnabled = 3
    /\ \E k \in Announced(syncOut) : mapMasternodePayeeVotes[k].nBlockHeight = chainTip - 3
    /\ \E k \in Announced(syncOut) :
           mapMasternodePayeeVotes[k].nBlockHeight = chainTip + WindowAhead
    /\ \E k \in DOMAIN mapMasternodePayeeVotes \ Announced(syncOut) :
           mapMasternodePayeeVotes[k].nBlockHeight = chainTip - 4
    /\ \E k \in DOMAIN mapMasternodePayeeVotes \ Announced(syncOut) :
           mapMasternodePayeeVotes[k].nBlockHeight = chainTip + WindowAhead + 1

\* C24: every response ends with exactly one sync-progress message, placed after all
\* the inventory announcements and carrying their number
C24_TrailingCount ==
    [][SyncAnswered =>
         LET n == Len(syncOut')
         IN /\ syncOut'[n].type = "ssc"
            /\ \A i \in 1..(n - 1) : syncOut'[i].type = "inv"
            /\ syncOut'[n].count = n - 1]_vars

C24_Witness ==
    /\ Len(syncOut) >= 3
    /\ syncOut[Len(syncOut)] = SscMsg(Len(syncOut) - 1)
    /\ \A i \in 1..(Len(syncOut) - 1) : syncOut[i].type = "inv"

\* C25 as stated: the answer to a request does not depend on whether the peer asked
\* before: no request is penalised, and the chain lock permitting, each is answered
\* with the votes of the range
C25_Stateless ==
    [][SyncStep =>
         /\ misbehaving' = 0
         /\ syncOut' \in {<<>>, SyncMessages(mapMasternodePayeeVotes, chainTip,
                                             syncReq'.nCountNeeded)}]_vars

\* C25 amended: on the main network the node remembers which peers asked and turns a
\* second request of a peer away with a penalty and no answer; on the other networks
\* every request is answered like the first
C25_StatelessOffMain ==
    [][SyncStep =>
         IF network = "main" /\ syncReq'.pfrom \in fulfilled
         THEN /\ misbehaving' = MisbehavingScore
              /\ syncOut' = <<>>
              /\ fulfilled' = fulfilled
         ELSE /\ misbehaving' = 0
              /\ fulfilled' = fulfilled \cup {syncReq'.pfrom}
              /\ syncOut' \in {<<>>, SyncMessages(mapMasternodePayeeVotes, chainTip,
                                                  syncReq'.nCountNeeded)}]_vars

C25_Witness ==
    /\ network = "main"
    /\ syncReq.pfrom \in fulfilled
    /\ misbehaving = MisbehavingScore
    /\ syncOut = <<>>
    /\ InRange(mapMasternodePayeeVotes, chainTip, syncReq.nCountNeeded) # {}

ReadStep == readResult' # readResult
ChecksumOk(f) == f.exists /\ f.hash = Hash(f.data)
LedgerKept == UNCHANGED <<mapMasternodePayeeVotes, mapMasternodeBlocks>>
LedgerEmpty == mapMasternodePayeeVotes = EmptyMap /\ mapMasternodeBlocks = EmptyMap

\* C26: a load checks, in this order, the checksum, the magic message, the network
\* magic and only then the payload, and reports the first check that fails; with
\* one of the first three failing nothing of the payload reaches the ledger
C26_CheckOrder ==
    [][ReadStep =>
         /\ (file.exists /\ file.hash # <<>> /\ file.hash # Hash(file.data))
                => readResult' = "IncorrectHash"
         /\ (ChecksumOk(file) /\ Len(file.data) >= 1 /\ file.data[1] # strMagicMessage)
                => readResult' = "IncorrectMagicMessage"
         /\ (/\ ChecksumOk(file) /\ Len(file.data) >= 2
             /\ file.data[1] = strMagicMessage
             /\ file.data[2] # MessageStart(network))
                => readResult' = "IncorrectMagicNumber"
         /\ (/\ ChecksumOk(file) /\ Len(file.data) \in {2, 3}
             /\ file.data[1] = strMagicMessage
             /\ file.data[2] = MessageStart(network))
                => readResult' = "IncorrectFormat"
         /\ readResult' \in {"IncorrectHash", "IncorrectMagicMessage",
                             "IncorrectMagicNumber"} => LedgerKept]_vars

\* a file with a wrong checksum and a wrong magic message was reported for its
\* checksum, one with a wrong magic message and another network's magic for its
\* magic message
C26_Witness ==
    \/ /\ readResult = "IncorrectHash"
       /\ file.exists /\ file.hash # <<>> /\ file.hash # Hash(file.data)
       /\ Len(file.data) = 4 /\ file.data[1] # strMagicMessage
    \/ /\ readResult = "IncorrectMagicMessage"
       /\ ChecksumOk(file)
       /\ Len(file.data) >= 2 /\ file.data[2] # MessageStart(network)

\* C27: a load that fails with IncorrectFormat leaves the ledger it was given empty
C27_FormatFailureClears ==
    [][ReadStep /\ readResult' = "IncorrectFormat" => LedgerEmpty']_vars

\* the payload broke off after the votes, and the ledger, which held votes of the
\* local node before, holds nothing of them
C27_Witness ==
    /\ readResult = "IncorrectFormat"
    /\ ChecksumOk(file)
    /\ Len(file.data) = 3 /\ file.data[3] # {}
    /\ nLastBlockHeight > 0
    /\ LedgerEmpty

\* C28: a load of a file whose checksum is corrupted returns IncorrectHash and leaves
\* the ledger it was given empty, whatever the ledger held before
C28_BadChecksumClears ==
    [][ReadStep /\ file.exists /\ file.hash # <<>> /\ file.hash # Hash(file.data) =>
         /\ readResult' = "IncorrectHash"
         /\ LedgerEmpty']_vars

Written(f, votes, blocks) ==
    /\ f.exists
    /\ f.data = <<strMagicMessage, MessageStart(network), SerializeVotes(votes),
                  SerializeBlocks(blocks)>>
    /\ f.hash = Hash(f.data)
SameLeaders(a, b) ==
    \A h \in DOMAIN a \cup DOMAIN b, level \in 1..PhaseCount :
        GetBlockPayee(a, h, level) = GetBlockPayee(b, h, level)

FillStep == <<txNew, txHeight, winningNode>>' # <<txNew, txHeight, winningNode>>
PaidOutputs(tx, h, phase) ==
    {i \in DOMAIN tx : tx[i].nValue = GetMasternodePayment(h, phase)}
HasLeader(blocks, h, phase) ==
    h \in DOMAIN blocks /\ GetPayee(blocks[h].vecPayments, phase) > 0

\* C30: a filled block template pays, for each tier of the next block, the leading
\* payee of the ledger when there is one and the masternode the roster offers only
\* when there is none; a tier with neither gets no output, whatever an earlier tier
\* was paid
C30_FillPayee ==
    [][FillStep =>
         /\ txHeight' = chainTip + 1
         /\ \A phase \in 1..PhaseCount :
               LET paid == PaidOutputs(txNew', txHeight', phase)
               IN IF HasLeader(mapMasternodeBlocks, txHeight', phase)
                  THEN /\ Cardinality(paid) = 1
                       /\ \A i \in paid :
                             txNew'[i].scriptPubKey =
                                 GetBlockPayee(mapMasternodeBlocks, txHeight', phase)
                  ELSE IF winningNode'[phase] # "none"
                  THEN /\ Cardinality(paid) = 1
                       /\ \A i \in paid :
                             txNew'[i].scriptPubKey = Script(winningNode'[phase])
                  ELSE paid = {}]_vars

\* tier 1 has a leading payee and is paid, tier 2 has neither a leading payee nor
\* a masternode from the roster and gets no output; and the roster's offer for
\* tier 1 was another masternode than the one paid
C30_Witness ==
    /\ txHeight = chainTip + 1
    /\ HasLeader(mapMasternodeBlocks, txHeight, 1)
    /\ ~HasLeader(mapMasternodeBlocks, txHeight, 2)
    /\ winningNode[2] = "none"
    /\ winningNode[1] # "none"
    /\ Script(winningNode[1]) # GetBlockPayee(mapMasternodeBlocks, txHeight, 1)
    /\ Cardinality(PaidOutputs(txNew, txHeight, 1)) = 1
    /\ \A i \in PaidOutputs(txNew, txHeight, 1) :
           txNew[i].scriptPubKey = GetBlockPayee(mapMasternodeBlocks, txHeight, 1)
    /\ PaidOutputs(txNew, txHeight, 2) = {}

RECURSIVE SumPayments(_, _)
SumPayments(h, phases) ==
    IF phases = {} THEN 0
    ELSE LET phase == CHOOSE x \in phases : TRUE
         IN GetMasternodePayment(h, phase) + SumPayments(h, phases \ {phase})
PaidPhases(tx, h) == {phase \in 1..PhaseCount : PaidOutputs(tx, h, phase) # {}}
MinedTx(tx) == tx[1].scriptPubKey = Script("miner")

\* C31: in a filled block template the primary output, the coinbase output of a
\* mined block or the stake output of a staked one, is lowered by the payment of
\* every tier, paid or not; only a mint stake output keeps the payments of the
\* paid tiers
C31_PrimaryReduced ==
    [][FillStep =>
         LET all == SumPayments(txHeight', 1..PhaseCount)
             unpaid == SumPayments(txHeight', (1..PhaseCount) \ PaidPhases(txNew', txHeight'))
         IN IF MinedTx(txNew')
            THEN txNew'[1].nValue = BlockValue - all
            ELSE txNew'[2].nValue \in {BlockValue - all, BlockValue - unpaid}]_vars

VotedBefore(votes, w) ==
    \E k \in DOMAIN votes : /\ votes[k].vinMasternode = w.vinMasternode
                            /\ votes[k].nBlockHeight = w.nBlockHeight
                            /\ GetPayeePhase(votes[k]) = GetPayeePhase(w)

\* C33: a correctly signed vote is refused as a second vote of its voter only when
\* the ledger holds a vote of that voter for the same tier and height; an
\* announcement that was itself refused does not stand in the way
C33_RefusedVoteDoesNotBlock ==
    [][(HandlerVoted /\ outcome' = "AlreadyVoted" /\ SignatureValid(winner)) =>
          VotedBefore(mapMasternodePayeeVotes, winner)]_vars

QuorumPayees(blocks, h, level) ==
    IF h \in DOMAIN blocks
    THEN {blocks[h].vecPayments[i].scriptPubKey :
             i \in {j \in DOMAIN blocks[h].vecPayments :
                       /\ blocks[h].vecPayments[j].masternodeLevel = level
                       /\ blocks[h].vecPayments[j].nVotes >= MNPAYMENTS_SIGNATURES_REQUIRED}}
    ELSE {}

\* C32: for every height and tier at most one payee holds 6 or more votes in the
\* tally, whatever votes of the top 10 voters were accepted
C32_SingleQuorum ==
    \A h \in DOMAIN mapMasternodeBlocks, level \in 1..PhaseCount :
        Cardinality(QuorumPayees(mapMasternodeBlocks, h, level)) <= 1

QuorumStep == <<winner, outcome, mapMasternodesLastVote>>' # <<winner, outcome, mapMasternodesLastVote>>
SameGuardKey(a, b) ==
    CanVoteKey(a, GetPayeePhase(a)) = CanVoteKey(b, GetPayeePhase(b))

\* C40: votes stored under the same guard key name the same collateral outpoint and
\* the same tier, and a vote is refused by the guard only when the ledger holds a
\* vote of its own voter for the same tier and height
C40_KeyInjective ==
    [][(QuorumStep /\ outcome' \in {"Accepted", "AlreadyVoted"}) =>
         /\ \A k \in DOMAIN mapMasternodePayeeVotes' :
               SameGuardKey(mapMasternodePayeeVotes'[k], winner') =>
                   /\ Outpoint(mapMasternodePayeeVotes'[k].vinMasternode)
                          = Outpoint(winner'.vinMasternode)
                   /\ GetPayeePhase(mapMasternodePayeeVotes'[k]) = GetPayeePhase(winner')
         /\ outcome' = "AlreadyVoted" => VotedBefore(mapMasternodePayeeVotes, winner')]_vars

HandlerRan == <<winner, outcome>>' # <<winner, outcome>>

\* C34: a vote of a voter who has a vote for the same tier and height in the
\* ledger, naming another payee, is not accepted, also when the ledger was written
\* to disk and loaded again in between
C34_GuardSurvivesReload ==
    [][(/\ HandlerRan
        /\ VotedBefore(mapMasternodePayeeVotes, winner')
        /\ GetHash(winner') \notin DOMAIN mapMasternodePayeeVotes) =>
          outcome' # "Accepted"]_vars

\* C35: a request the node records as fulfilled for the peer is answered, the
\* sync-progress message last; so a peer is penalised for asking again only after
\* it got an answer
C35_FulfilledIsAnswered ==
    [][(SyncStep /\ misbehaving' = 0 /\ syncReq'.pfrom \in fulfilled') =>
          /\ syncOut' # <<>>
          /\ syncOut'[Len(syncOut')].type = "ssc"]_vars

EarlyFailures == {"FileError", "HashReadError", "IncorrectHash", "IncorrectMagicMessage",
                  "IncorrectMagicNumber"}

\* C36: a load that fails with FileError, HashReadError, IncorrectHash,
\* IncorrectMagicMessage or IncorrectMagicNumber leaves the votes, the tallies and
\* the guard map as they were and runs no cleanup
C36_FailedReadKeepsLedger ==
    [][(ReadStep /\ readResult' \in EarlyFailures) =>
          /\ UNCHANGED <<mapMasternodePayeeVotes, mapMasternodeBlocks,
                         mapMasternodesLastVote, nLastBlockHeight>>
          /\ erasedSeen' = {}]_vars

\* the file broke off before its checksum; the ledger still holds votes that a
\* cleanup at this tip would remove
C36_Witness ==
    /\ readResult = "HashReadError"
    /\ file.exists /\ file.hash = <<>>
    /\ mapMasternodePayeeVotes # EmptyMap
    /\ mapMasternodeBlocks # EmptyMap
    /\ OldVotes(mapMasternodePayeeVotes, chainTip) # {}

DumpStep == readResult' # readResult \/ (wrPc = "idle" /\ wrPc' = "blocks")
Corrupted(f) == ReadChecks(f) \in {"IncorrectHash", "IncorrectMagicMessage",
                                   "IncorrectMagicNumber"}

\* C37 as stated: a dump that finds the file corrupted (checksum, magic message or
\* network magic) goes on to write a new snapshot
C37_DumpRepairs ==
    [][(DumpStep /\ Corrupted(file)) => wrPc' = "blocks"]_vars

\* C37 amended: a dump writes exactly when the file is missing, valid or has a
\* malformed payload, and the file it writes reads back with Ok; a dump that finds
\* the file corrupted leaves it as it is
C37_DumpWritesUnlessCorrupted ==
    [][/\ DumpStep =>
            /\ wrPc' = "blocks" <=> ReadChecks(file) \in {"FileError", "Ok", "IncorrectFormat"}
            /\ file' = file
       /\ (wrPc = "blocks" /\ wrPc' = "idle" /\ file' # file) => ReadChecks(file') = "Ok"]_vars

\* the dump found a wrong checksum and returned: the file is still the damaged one
\* though the ledger holds votes to save
C37_Witness ==
    /\ readResult = "IncorrectHash"
    /\ ReadChecks(file) = "IncorrectHash"
    /\ wrPc = "idle"
    /\ mapMasternodePayeeVotes # EmptyMap
    /\ Len(file.data) = 4
    /\ FileVoteHeights(file) # {mapMasternodePayeeVotes[k].nBlockHeight :
                                   k \in DOMAIN mapMasternodePayeeVotes}

\* a step in which ProcessBlock returned
ProcessBlockReturned == ret' # ret /\ ret'.fn = "ProcessBlock"
OwnVotes(votes) == {k \in DOMAIN votes : votes[k].vinMasternode = activeMasternode}
OwnHeights(votes) == {votes[k].nBlockHeight : k \in OwnVotes(votes)}

\* C39 as stated: nLastBlockHeight never decreases, ProcessBlock(h) adds votes only
\* for h above the last-voted height, and a ProcessBlock that returns true after
\* another one returned true is for a greater height
C39_VotesOncePerHeight ==
    [][/\ nLastBlockHeight' >= nLastBlockHeight
       /\ (ProcessBlockReturned /\ mapMasternodePayeeVotes' # mapMasternodePayeeVotes)
            => ret'.height > nLastBlockHeight
       /\ (ProcessBlockReturned /\ ret.fn = "ProcessBlock" /\ ret.value /\ ret'.value)
            => ret'.height > ret.height]_vars

\* C39 amended: nLastBlockHeight never decreases; ProcessBlock(h) adds votes only for
\* h above nLastBlockHeight and then sets nLastBlockHeight to h; it returns true
\* exactly when it added a vote or, having passed the checks, h is a budget height,
\* for which it adds no vote and leaves nLastBlockHeight alone; a call with
\* h <= nLastBlockHeight returns false and adds no vote
C39_VotesAboveLastHeight ==
    [][/\ nLastBlockHeight' >= nLastBlockHeight
       /\ ProcessBlockReturned =>
            /\ mapMasternodePayeeVotes' # mapMasternodePayeeVotes
                 => /\ ret'.height > nLastBlockHeight
                    /\ nLastBlockHeight' = ret'.height
                    /\ ret'.value
                    /\ ~IsBudgetPaymentBlock(ret'.height)
            /\ ret'.value
                 => \/ mapMasternodePayeeVotes' # mapMasternodePayeeVotes
                    \/ /\ IsBudgetPaymentBlock(ret'.height)
                       /\ nLastBlockHeight' = nLastBlockHeight
            /\ ret'.height <= nLastBlockHeight
                 => /\ ~ret'.value
                    /\ mapMasternodePayeeVotes' = mapMasternodePayeeVotes]_vars

\* ProcessBlock returned true for the budget height after the node had voted for a
\* lower height: no vote for the budget height, and the last-voted height unmoved
C39_Witness ==
    /\ ret = [fn |-> "ProcessBlock", height |-> Tip0 + WindowAhead, value |-> TRUE]
    /\ nLastBlockHeight = Tip0 + 5
    /\ Tip0 + 5 \in OwnHeights(mapMasternodePayeeVotes)
    /\ Tip0 + WindowAhead \notin OwnHeights(mapMasternodePayeeVotes)

\* a step in which IsBlockPayeeValid returned
PayeeChecked == ret' # ret /\ ret'.fn = "IsBlockPayeeValid"

\* C38: on a non-budget block IsBlockPayeeValid returns false only when the node is
\* synced, payment enforcement is active and the tally's IsTransactionValid is false
\* for the transaction at the height; unsynced or without enforcement it returns true
C38_RejectsOnlyEnforced ==
    [][(PayeeChecked /\ ret'.budget = "none") =>
          /\ ~ret'.value =>
                /\ ret'.synced
                /\ ret'.enforced
                /\ ~IsTransactionValid(mapMasternodeBlocks, txNew', txHeight')
          /\ (~ret'.synced \/ ~ret'.enforced) => ret'.value]_vars

\* a synced node without enforcement accepted a non-budget block that does not pay
\* the payee holding enough votes
C38_Witness ==
    /\ ret = [fn |-> "IsBlockPayeeValid", synced |-> TRUE, budget |-> "none",
              enforced |-> FALSE, value |-> TRUE]
    /\ txHeight \in DOMAIN mapMasternodeBlocks
    /\ ~IsTransactionValid(mapMasternodeBlocks, txNew, txHeight)

====
